---- MODULE Spec2Model ----
(***************************************************************************)
(* Model of the incremental synchronisation engine of cursor-prompt-sync:  *)
(* AutoScheduler (src/src/autoScheduler.ts), the sink access of            *)
(* PostgresManager (src/src/postgresManager.ts) and the source access of   *)
(* DatabaseManager (src/src/databaseManager.ts).                          *)
(*                                                                         *)
(* A tick (executeScheduledTask) is an async function: it is modelled as a *)
(* process with one step per await, so that timer firings, scheduler       *)
(* commands, the clock and the monitored application interleave with it.   *)
(***************************************************************************)
EXTENDS Integers, Sequences, FiniteSets, TLC

VARIABLES
    isRunning,          \* AutoScheduler.isRunning
    intervalId,         \* AutoScheduler.intervalId: 0 = null, else the armed period (minutes)
    intervalMinutes,    \* AutoScheduler.intervalMinutes
    armedTimers,        \* periodic timers armed in the runtime (setInterval less clearInterval)
    executionCount,     \* AutoScheduler.executionCount
    errorCount,         \* AutoScheduler.errorCount
    supabaseRetryCount, \* AutoScheduler.supabaseRetryCount
    pgInitialized,      \* PostgresManager.isInitialized(): pool and config are set
    configUserId,       \* the setting cursorSqlRunner.userId ("" = unset)
    secretUserId,       \* the secret cursorSqlRunner.userId ("" = unset)
    sink,               \* the sink table, rows in created_at order
    source,             \* the source store: bubbles and sessions
    now,                \* wall clock, epoch milliseconds
    tzOffsetMs,         \* local time minus UTC of the host, milliseconds
    ticks,              \* every executeScheduledTask call so far, in launch order
    lastQuery,          \* the executeQuery call of a command and how it ended
    autoStartupEnabled, \* globalState 'autoStartup.enabled' (kept across sessions)
    activation,         \* how far activate() has come, and the flag it found
    workspaceState,     \* workspaceState 'autoScheduler.executionCount' and '.errorCount'
    pool                \* PostgresManager.pool: clients checked out, and the calls of
                        \* initialize() and testConnection() in progress

vars == <<isRunning, intervalId, intervalMinutes, armedTimers, executionCount, errorCount,
          supabaseRetryCount, pgInitialized, configUserId, secretUserId,
          sink, source, now, tzOffsetMs, ticks, lastQuery,
          autoStartupEnabled, activation, workspaceState, pool>>

schedVars == <<isRunning, intervalId, intervalMinutes, armedTimers>>

\* clearInterval(this.intervalId) under `if (this.intervalId)`: the timer
\* the handle names is disarmed
AfterClear == IF intervalId # 0 THEN armedTimers - 1 ELSE armedTimers
userVars == <<configUserId, secretUserId>>
envVars == <<source, now, tzOffsetMs>>
sessionVars == <<autoStartupEnabled, activation>>
extVars == <<lastQuery, sessionVars, workspaceState, pool>>

\* saveState() (lines 871-878): the counters written to workspace storage
saveState(executions, errors) ==
    [executionCount |-> executions, errorCount |-> errors]

\* Workspace storage before any saveState(): restoreState() reads 0 for
\* both counters
NothingSaved == saveState(0, 0)

-----------------------------------------------------------------------------
(* Bounds of the model *)

\* ticks launched in one behaviour
MaxTicks == 2

(* Program constants *)

maxRetries == 3
MsPerSec == 1000
DefaultIntervalMinutes == 60

-----------------------------------------------------------------------------
(* Values *)

Null == "<null>"
NoTime == -1

\* JavaScript truthiness of a string-or-null value
Truthy(s) == s # Null /\ s # ""

\* A timestamp text "YYYY-MM-DD<sep>HH:MM:SS[.frac]": the separator, the
\* whole seconds its digits denote, and the fractional digits.
Text(sep, sec, frac) == [sep |-> sep, sec |-> sec, frac |-> frac]

\* timestampToUse is a string or a number
StampText(t) == [kind |-> "text", text |-> t, ms |-> 0]
StampMs(n) == [kind |-> "ms", text |-> Text("T", 0, 0), ms |-> n]

\* SQLite datetime(ms/1000, 'unixepoch'): UTC, whole seconds, a space
Render(ms) == Text(" ", ms \div MsPerSec, 0)

\* String.replace('T', ' ') and String.replace(' ', 'T')
ReplaceTWithSpace(t) == [t EXCEPT !.sep = " "]
ReplaceSpaceWithT(t) == [t EXCEPT !.sep = "T"]

\* new Date(text).getTime() for a text without zone designator: the digits
\* are read as local time
DateParse(t, tz) == t.sec * MsPerSec + t.frac - tz

\* new Date().toISOString().split('.')[0]
NowIsoString(clock) == Text("T", clock \div MsPerSec, 0)

\* new Date(ms).toISOString().replace('.000Z', '').replace('Z', '')
IsoNoZ(ms) == Text("T", ms \div MsPerSec, ms % MsPerSec)

-----------------------------------------------------------------------------
(* The monitored application: one session whose messages appear as the     *)
(* clock reaches their send time.                                          *)

Composer == "c1"

Script ==
    << [id |-> 1, type |-> 1, text |-> "p1", sendTime |-> 2 * MsPerSec],
       [id |-> 2, type |-> 2, text |-> "r1", sendTime |-> 2 * MsPerSec],
       [id |-> 3, type |-> 2, text |-> "r2", sendTime |-> 2 * MsPerSec + MsPerSec \div 2],
       [id |-> 4, type |-> 1, text |-> "p2", sendTime |-> 3 * MsPerSec],
       [id |-> 5, type |-> 2, text |-> "r3", sendTime |-> 3 * MsPerSec] >>

\* The clock starts half a second before the first message and moves in
\* half seconds until the last message is sent
ClockStep == MsPerSec \div 2
StartNow == Script[1].sendTime - ClockStep
EndNow == Script[Len(Script)].sendTime
TzOffsets == {0, MsPerSec}

BubbleOf(m) == [composer |-> Composer, id |-> m.id, type |-> m.type,
                text |-> m.text, sendTime |-> m.sendTime]

SourceAt(clock) ==
    LET sent == SelectSeq(Script, LAMBDA m : m.sendTime <= clock)
    IN  [bubbles |-> {BubbleOf(sent[i]) : i \in 1..Len(sent)},
         sessions |-> [c \in {Composer} |-> [i \in 1..Len(sent) |-> sent[i].id]]]

-----------------------------------------------------------------------------
(* DatabaseManager.executeQuery: a statement is a text, modelled as the    *)
(* sequence of its characters.                                             *)

Whitespace == {" ", "\n"}
UpperCase == <<"S", "E", "L", "C", "T", "W", "I", "H", "P", "R", "A", "G", "M", "D", "N">>
LowerCase == <<"s", "e", "l", "c", "t", "w", "i", "h", "p", "r", "a", "g", "m", "d", "n">>

\* String.trim()
RECURSIVE Trim(_)
Trim(text) ==
    IF text = <<>> THEN text
    ELSE IF Head(text) \in Whitespace THEN Trim(Tail(text))
    ELSE IF text[Len(text)] \in Whitespace THEN Trim(SubSeq(text, 1, Len(text) - 1))
    ELSE text

\* String.toLowerCase()
ToLowerCase(text) ==
    [ i \in 1..Len(text) |->
        IF \E u \in 1..Len(UpperCase) : UpperCase[u] = text[i]
        THEN LowerCase[CHOOSE u \in 1..Len(UpperCase) : UpperCase[u] = text[i]]
        ELSE text[i] ]

\* String.startsWith()
StartsWith(text, prefix) ==
    /\ Len(text) >= Len(prefix)
    /\ SubSeq(text, 1, Len(prefix)) = prefix

\* A validation that lets every statement through (a variation used to
\* test C24)
QueryAllowedAny(query) == Len(query) >= 0

\* Lines 57-61: the statement passes the validation
QueryAllowed(query) ==
    LET trimmedQuery == ToLowerCase(Trim(query))
    IN  \/ StartsWith(trimmedQuery, <<"s", "e", "l", "e", "c", "t">>)
        \/ StartsWith(trimmedQuery, <<"w", "i", "t", "h">>)

\* No executeQuery call of a command yet
NoQuery == [query |-> <<>>, outcome |-> "none", error |-> "", read |-> FALSE]

\* executeQuery(query): store is "present" or "unavailable" (no path is
\* configured or the file does not exist), run is "ok" or "sqlerror" (sql.js
\* fails on the statement).  The result holds the statement, how the call
\* ended (it throws, or it returns rows, or it returns [] after a caught
\* error) and whether the database file was read; the file is read into
\* memory and never written.
executeQuery(query, store, run) ==
    IF store = "unavailable"
    THEN [query |-> query, outcome |-> "throws", error |-> "unavailable", read |-> FALSE]
    ELSE IF ~QueryAllowed(query)
    THEN [query |-> query, outcome |-> "throws", error |-> "notAllowed", read |-> FALSE]
    ELSE IF run = "ok"
    THEN [query |-> query, outcome |-> "rows", error |-> "", read |-> TRUE]
    ELSE [query |-> query, outcome |-> "empty", error |-> "", read |-> TRUE]

-----------------------------------------------------------------------------
(* Source reads: the extraction query and the exact-milliseconds lookup *)

\* ORDER BY tfb.client_rpc_send_time DESC: the joined rows <<bubble,
\* position>> of the finite set S as a sequence, latest send time first
RECURSIVE OrderBySendTimeDesc(_)
OrderBySendTimeDesc(S) ==
    IF S = {} THEN <<>>
    ELSE LET top == CHOOSE x \in S : \A y \in S : y[1].sendTime <= x[1].sendTime
         IN  <<top>> \o OrderBySendTimeDesc(S \ {top})

\* CTE bubble_sequence: every (session, message id, zero-based position)
BubbleSequence(src) ==
    UNION { { [composer |-> c, bubble |-> src.sessions[c][i], idx |-> i - 1] :
                i \in 1..Len(src.sessions[c]) } : c \in DOMAIN src.sessions }

\* The bubble filter with >= in place of > (a variation used to test C18)
TimestampFilteredBubblesInclusive(src, targetMs, targetText) ==
    { b \in src.bubbles :
        /\ b.type = 2
        /\ b.sendTime # NoTime
        /\ b.sendTime >= targetMs
        /\ Render(b.sendTime) # targetText }

\* CTE timestamp_filtered_bubbles
TimestampFilteredBubbles(src, targetMs, targetText) ==
    { b \in src.bubbles :
        /\ b.type = 2
        /\ b.sendTime # NoTime
        /\ b.sendTime > targetMs
        /\ Render(b.sendTime) # targetText }

\* A prompt subquery that reads the record at the response's own position
\* (a variation used to test C16)
PromptOfSame(src, composer, idx) ==
    LET same == { p \in BubbleSequence(src) : p.composer = composer /\ p.idx = idx }
        data == { d \in src.bubbles :
                    \E p \in same : d.composer = composer /\ d.id = p.bubble }
    IN  IF data = {} THEN Null ELSE (CHOOSE d \in data : TRUE).text

\* The scalar subquery of the final SELECT: the text of the record keyed
\* bubbleId:<composer>:<previous message id>, NULL when there is none
PromptOf(src, composer, idx) ==
    LET prev == { p \in BubbleSequence(src) : p.composer = composer /\ p.idx = idx - 1 }
        data == { d \in src.bubbles :
                    \E p \in prev : d.composer = composer /\ d.id = p.bubble }
    IN  IF data = {} THEN Null ELSE (CHOOSE d \in data : TRUE).text

\* A query built with the epoch as lower bound whatever the watermark (a
\* variation used to test C33)
QueryTargetEpoch(stamp, tz) == [ms |-> 0, text |-> Text("T", 0, 0)]

\* getOptimizedQuery: the values injected for target_ms and target_timestamp
QueryTarget(stamp, tz) ==
    IF stamp.kind = "ms"
    THEN [ms |-> stamp.ms, text |-> IsoNoZ(stamp.ms)]
    ELSE [ms |-> DateParse(stamp.text, tz), text |-> stamp.text]

\* The query with an inner join on prev_bs, which drops a response that
\* has no previous message (a variation used to test C17)
getOptimizedQueryInnerJoin(src, stamp, tz) ==
    LET target == QueryTarget(stamp, tz)
        tfb == TimestampFilteredBubbles(src, target.ms, target.text)
        bs == BubbleSequence(src)
        joined == { <<b, s>> \in tfb \X bs : b.id = s.bubble /\ s.idx >= 1 }
        ordered == OrderBySendTimeDesc(joined)
    IN  [ i \in 1..Len(ordered) |->
            [timestamp |-> Render(ordered[i][1].sendTime),
             prompt |-> PromptOf(src, ordered[i][2].composer, ordered[i][2].idx),
             bubble |-> ordered[i][1].id] ]

\* The query with a left join on target_bs, which keeps a response that is
\* in no session (a variation used to test C35)
getOptimizedQueryKeepsOrphans(src, stamp, tz) ==
    LET target == QueryTarget(stamp, tz)
        tfb == TimestampFilteredBubbles(src, target.ms, target.text)
        bs == BubbleSequence(src)
        placed == { <<b, s>> \in tfb \X bs : b.id = s.bubble }
        orphans == { b \in tfb : \A s \in bs : s.bubble # b.id }
        joined == placed \cup
                  { <<b, [composer |-> b.composer, bubble |-> b.id, idx |-> 0]>> :
                      b \in orphans }
        ordered == OrderBySendTimeDesc(joined)
    IN  [ i \in 1..Len(ordered) |->
            [timestamp |-> Render(ordered[i][1].sendTime),
             prompt |-> PromptOf(src, ordered[i][2].composer, ordered[i][2].idx),
             bubble |-> ordered[i][1].id] ]

\* The query built by getOptimizedQuery, run on the source. Each result row
\* also carries the id of the response it came from (not a column of the
\* query: kept to tell rows apart in the properties).
getOptimizedQuery(src, stamp, tz) ==
    LET target == QueryTarget(stamp, tz)
        tfb == TimestampFilteredBubbles(src, target.ms, target.text)
        bs == BubbleSequence(src)
        ti == { s \in bs : \E b \in tfb : s.bubble = b.id }
        joined == { <<b, s>> \in tfb \X bs :
                      /\ b.id = s.bubble
                      /\ \E i \in ti : i.composer = s.composer /\ i.idx = s.idx }
        ordered == OrderBySendTimeDesc(joined)
    IN  [ i \in 1..Len(ordered) |->
            [timestamp |-> Render(ordered[i][1].sendTime),
             prompt |-> PromptOf(src, ordered[i][2].composer, ordered[i][2].idx),
             bubble |-> ordered[i][1].id] ]

\* A lookup that never finds the record (a variation used to test C19)
FindActualMsNone(src, cleaned) == <<>>

\* findActualMsQuery: the greatest raw send time among the responses whose
\* rendered time equals the cleaned checkpoint text; <<>> when none
FindActualMs(src, cleaned) ==
    LET hits == { b \in src.bubbles :
                    /\ b.type = 2
                    /\ b.sendTime # NoTime
                    /\ Render(b.sendTime) = cleaned }
    IN  IF hits = {} THEN <<>>
        ELSE << (CHOOSE b \in hits : \A o \in hits : o.sendTime <= b.sendTime).sendTime >>

\* The dedup filter of executeScheduledTask
DedupFilter(results, stamp, tz) ==
    LET lastDate == IF stamp.kind = "ms" THEN stamp.ms ELSE DateParse(stamp.text, tz)
    IN  SelectSeq(results, LAMBDA r : DateParse(r.timestamp, tz) # lastDate)

-----------------------------------------------------------------------------
(* Sink access *)

\* getLastDatapoint: ORDER BY created_at DESC LIMIT 1, filtered by the user
\* id setting when it is set; <<>> when no row qualifies
getLastDatapoint(rows, userId) ==
    LET mine == SelectSeq(rows, LAMBDA r : userId = "" \/ r.user_id = userId)
    IN  IF mine = <<>> THEN <<>> ELSE << mine[Len(mine)] >>

\* A time-valued field that is null or undefined, and one that is the empty
\* string
NullText == Text("<null>", 0, 0)
EmptyText == Text("", 0, 0)

\* JavaScript truthiness of a time-valued field
TextTruthy(t) == t # NullText /\ t # EmptyText

\* item.<name>: undefined when the object has no such property
Field(item, name, undefined) ==
    IF name \in DOMAIN item THEN item[name] ELSE undefined

\* storeSimplePrompts, lines 537-547: the timestamp taken from an item
ItemTimestamp(item) ==
    IF TextTruthy(Field(item, "timestamp", NullText)) THEN item.timestamp
    ELSE IF TextTruthy(Field(item, "created_at", NullText)) THEN item.created_at
    ELSE IF TextTruthy(Field(item, "time", NullText)) THEN item.time
    ELSE NullText

\* storeSimplePrompts, lines 549-561: the prompt taken from an item
ItemPrompt(item) ==
    IF Truthy(Field(item, "prompt", Null)) THEN item.prompt
    ELSE IF Truthy(Field(item, "text", Null)) THEN item.text
    ELSE IF Truthy(Field(item, "message", Null)) THEN item.message
    ELSE IF Truthy(Field(item, "content", Null)) THEN item.content
    ELSE Null

\* A parsing loop that reads only the fields timestamp and prompt (a
\* variation used to test C22)
RecordsToInsertFirstNamesOnly(items) ==
    LET valid == SelectSeq(items, LAMBDA r : TextTruthy(r.timestamp) /\ Truthy(r.prompt))
    IN  [ i \in 1..Len(valid) |->
            [timestamp |-> valid[i].timestamp,
             prompt |-> valid[i].prompt,
             bubble |-> valid[i].bubble] ]

\* A parsing loop that takes every item as it is (a variation used to test
\* C34)
RecordsToInsertUnchecked(items) ==
    [ i \in 1..Len(items) |->
        [timestamp |-> ItemTimestamp(items[i]),
         prompt |-> ItemPrompt(items[i]),
         bubble |-> items[i].bubble] ]

\* storeSimplePrompts, the parsing loop: one record per item that yields a
\* timestamp and a prompt, in the order of the items; the other items are
\* skipped
RecordsToInsert(items) ==
    LET valid == SelectSeq(items, LAMBDA r : /\ TextTruthy(ItemTimestamp(r))
                                             /\ Truthy(ItemPrompt(r)))
    IN  [ i \in 1..Len(valid) |->
            [timestamp |-> ItemTimestamp(valid[i]),
             prompt |-> ItemPrompt(valid[i]),
             bubble |-> valid[i].bubble] ]

\* storeSimplePrompts, the user id of the inserted rows
InsertUserId(userId) == IF userId = "" THEN "local_user" ELSE userId

\* An insert loop that replaces the rows already stored under the same
\* timestamp and user (a variation used to test C23)
InsertRowsReplacing(rows, records, k, userId) ==
    SelectSeq(rows, LAMBDA r :
                ~ \E i \in 1..k : /\ r.timestamp = records[i].timestamp
                                   /\ r.user_id = InsertUserId(userId))
    \o [ i \in 1..k |->
           [timestamp |-> records[i].timestamp,
            prompt |-> records[i].prompt,
            user_id |-> InsertUserId(userId),
            bubble |-> records[i].bubble] ]

\* storeSimplePrompts, the insert loop: the sink after the first k records
\* were inserted
InsertRows(rows, records, k, userId) ==
    rows \o [ i \in 1..k |->
                [timestamp |-> records[i].timestamp,
                 prompt |-> records[i].prompt,
                 user_id |-> InsertUserId(userId),
                 bubble |-> records[i].bubble] ]

-----------------------------------------------------------------------------
(* The connection pool of the sink: `max: 10` clients; every operation     *)
(* takes a client with pool.connect() and gives it back in a finally.      *)

PoolMax == 10

\* The pool initialize() creates: no client checked out, no call of
\* initialize() or testConnection() in progress
PoolIdle ==
    [checkedOut |-> 0, init |-> "none", testing |-> [connect |-> 0, query |-> 0]]

\* pool.connect() resolves with a client only while fewer than PoolMax are
\* checked out
CanConnect == pool.checkedOut < PoolMax

\* A finally that releases only when the statement succeeded (a variation
\* used to test C39)
ReleaseOnSuccess(checkedOut, ok) == IF ok THEN checkedOut - 1 ELSE checkedOut

\* finally { client.release() }: the client goes back to the pool whether
\* the statement succeeded (ok) or threw
Release(checkedOut, ok) == checkedOut - 1

\* The pool after the sink operation of a tick ends: the client the call
\* holds is released; a call that holds none took one and gave it back
\* within the step
PoolAfterTick(tick, ok) ==
    IF tick.client
    THEN [pool EXCEPT !.checkedOut = Release(pool.checkedOut, ok)]
    ELSE pool

-----------------------------------------------------------------------------
(* executeScheduledTask: one record per call.  pc is the await the call is *)
(* suspended at; timestampToUse, checkpoint (lastDatapoint), userId,       *)
(* insertUserId and filtered (filteredResults) are its locals.  The other  *)
(* fields are history kept for the properties: what the call did.          *)

NewTick(clock, done, initialized, userId) ==
    [pc |-> IF initialized THEN "getLast" ELSE "query",
     timestampToUse |-> StampText(NowIsoString(clock)),
     checkpoint |-> <<>>,
     userId |-> userId,
     insertUserId |-> "",
     filtered |-> <<>>,
     client |-> FALSE,       \* the sink operation the call awaits holds a client
     \* history
     readLen |-> 0,          \* rows in the sink when the watermark was read
     path |-> "fallback",    \* how timestampToUse was set: fallback, exact, parse
     lowerBound |-> <<>>,    \* target_ms of the extraction query, once issued
     results |-> <<>>,       \* the rows the extraction query returned
     written |-> <<>>,       \* rows this call inserted
     raised |-> {},          \* stages of this call that raised an error
     failCount |-> 0,        \* supabaseRetryCount right after this call's increment
     outcome |-> "running",  \* running, ok, abortRetry, error
     after |-> done]         \* the calls that had ended when this one began

InFlight == { t \in 1..Len(ticks) : ticks[t].pc # "done" }
Ended == { t \in 1..Len(ticks) : ticks[t].pc = "done" }

\* getUserIdSecret: the legacy setting moves into secret storage
MigratedUserIds(config, secret) ==
    IF secret = "" /\ config # ""
    THEN [config |-> "", secret |-> config]
    ELSE [config |-> config, secret |-> secret]

\* The call begins: lines 583-598.  getUserIdSecret() is awaited on local
\* secret storage and is taken to resolve before any other event; then
\* isInitialized() is tested and getLastDatapoint is called, which reads the
\* user id setting before its first await.
Launch ==
    LET ids == MigratedUserIds(configUserId, secretUserId)
    IN  /\ configUserId' = ids.config
        /\ secretUserId' = ids.secret
        /\ ticks' = Append(ticks, NewTick(now, Ended, pgInitialized, ids.config))

\* A watermark catch that never returns early (a variation used to test C6)
WatermarkCatchProceeds(count, initialized) ==
    [count |-> IF count + 1 < maxRetries THEN count + 1 ELSE 0,
     abort |-> FALSE,
     attempt |-> IF initialized THEN count + 1 ELSE 0]

\* A watermark catch that keeps counting at maxRetries (a variation used to
\* test C29)
WatermarkCatchKeepsCounting(count, initialized) ==
    [count |-> count + 1,
     abort |-> count + 1 < maxRetries,
     attempt |-> IF initialized THEN count + 1 ELSE 0]

\* The catch of the watermark fetch (lines 639-663): the counter afterwards,
\* whether the call returns, and the counter right after the increment
WatermarkCatch(count, initialized) ==
    IF initialized
    THEN LET attempt == count + 1
             reset == IF attempt < maxRetries THEN attempt ELSE 0
         IN  [count |-> reset, abort |-> reset < maxRetries, attempt |-> attempt]
    ELSE [count |-> count, abort |-> FALSE, attempt |-> 0]

\* An end of the call at which an error of the sink write reaches the
\* catch of the tick boundary (a variation used to test C36)
FinishRaisesSinkError(t, tick) ==
    IF "sink" \in tick.raised
    THEN /\ ticks' = [ticks EXCEPT ![t] = [tick EXCEPT !.pc = "done", !.outcome = "error"]]
         /\ errorCount' = errorCount + 1
         /\ UNCHANGED <<executionCount, schedVars>>
    ELSE /\ ticks' = [ticks EXCEPT ![t] = [tick EXCEPT !.pc = "done", !.outcome = "ok"]]
         /\ executionCount' = executionCount + 1
         /\ UNCHANGED <<errorCount, schedVars>>

\* The end of a call that reached line 740 (or the early return of line 693)
Finish(t, tick) ==
    /\ ticks' = [ticks EXCEPT ![t] = [tick EXCEPT !.pc = "done", !.outcome = "ok"]]
    /\ executionCount' = executionCount + 1
    /\ UNCHANGED <<errorCount, schedVars>>

\* A tick-boundary catch that also stops the scheduler (a variation used to
\* test C9)
TickCatchStops(t, tick) ==
    /\ ticks' = [ticks EXCEPT ![t] = [tick EXCEPT !.pc = "done", !.outcome = "error"]]
    /\ errorCount' = errorCount + 1
    /\ isRunning' = FALSE
    /\ intervalId' = 0
    /\ armedTimers' = AfterClear
    /\ UNCHANGED <<executionCount, intervalMinutes>>

\* The catch at the tick boundary (lines 749-754)
TickCatch(t, tick) ==
    /\ ticks' = [ticks EXCEPT ![t] = [tick EXCEPT !.pc = "done", !.outcome = "error"]]
    /\ errorCount' = errorCount + 1
    /\ UNCHANGED <<executionCount, schedVars>>

\* await getLastDatapoint(): it throws (ok = FALSE) or returns the row
TickGetLast(t, ok) ==
    /\ t \in 1..Len(ticks) /\ ticks[t].pc = "getLast"
    /\ IF ~ok
       THEN LET c == WatermarkCatch(supabaseRetryCount, pgInitialized)
            IN  /\ supabaseRetryCount' = c.count
                /\ ticks' = [ticks EXCEPT ![t] =
                     [@ EXCEPT !.pc = IF c.abort THEN "done" ELSE "query",
                               !.client = FALSE,
                               !.outcome = IF c.abort THEN "abortRetry" ELSE @,
                               !.raised = @ \cup {"watermark"},
                               !.failCount = c.attempt]]
       ELSE LET dp == getLastDatapoint(sink, ticks[t].userId)
            IN  IF dp # <<>>
                THEN /\ ticks' = [ticks EXCEPT ![t] =
                          [@ EXCEPT !.pc = "lookup", !.checkpoint = dp,
                                    !.client = FALSE, !.readLen = Len(sink)]]
                     /\ UNCHANGED supabaseRetryCount
                ELSE /\ ticks' = [ticks EXCEPT ![t] =
                          [@ EXCEPT !.pc = "query", !.client = FALSE,
                                    !.readLen = Len(sink)]]
                     /\ supabaseRetryCount' = 0
    /\ ok => ticks[t].client \/ CanConnect
    /\ pool' = PoolAfterTick(ticks[t], ok)
    /\ UNCHANGED <<schedVars, executionCount, errorCount, pgInitialized,
                   userVars, sink, envVars, lastQuery, sessionVars, workspaceState>>

\* await executeQuery(findActualMsQuery): it returns the matching rows
\* (ok), or it throws or returns [] after an error of the store (~ok)
TickLookup(t, ok) ==
    /\ t \in 1..Len(ticks) /\ ticks[t].pc = "lookup"
    /\ LET stored == ticks[t].checkpoint[1].timestamp
           found == IF ok
                    THEN FindActualMs(source, ReplaceTWithSpace(stored))
                    ELSE <<>>
       IN  ticks' = [ticks EXCEPT ![t] =
             [@ EXCEPT !.pc = "query",
                       !.timestampToUse = IF found # <<>>
                                          THEN StampMs(found[1])
                                          ELSE StampText(ReplaceSpaceWithT(stored)),
                       !.path = IF found # <<>> THEN "exact" ELSE "parse",
                       !.raised = IF ok THEN @ ELSE @ \cup {"lookup"}]]
    /\ supabaseRetryCount' = 0
    /\ UNCHANGED <<schedVars, executionCount, errorCount, pgInitialized,
                   userVars, sink, envVars, extVars>>

\* await executeQuery(sqlContent): res is "ok", "unavailable" (the store is
\* missing: executeQuery throws) or "sqlerror" (the statement fails:
\* executeQuery returns []); then the dedup filter, the early return of
\* lines 691-698 (the one end of a call that calls saveState), and the call
\* of storeSimplePrompts up to its first await
TickQuery(t, res) ==
    /\ t \in 1..Len(ticks) /\ ticks[t].pc = "query"
    /\ LET tick == ticks[t]
           target == QueryTarget(tick.timestampToUse, tzOffsetMs)
           results == IF res = "ok"
                      THEN getOptimizedQuery(source, tick.timestampToUse, tzOffsetMs)
                      ELSE <<>>
           filteredResults == DedupFilter(results, tick.timestampToUse, tzOffsetMs)
           issued == [tick EXCEPT !.lowerBound = <<target.ms>>,
                                  !.results = results,
                                  !.filtered = filteredResults,
                                  !.raised = IF res = "ok" THEN @ ELSE @ \cup {"query"}]
       IN  IF res = "unavailable"
           THEN /\ TickCatch(t, [tick EXCEPT !.raised = @ \cup {"source"}])
                /\ UNCHANGED workspaceState
           ELSE IF results # <<>> /\ filteredResults = <<>>
           THEN /\ Finish(t, issued)
                /\ workspaceState' = saveState(executionCount + 1, errorCount)
           ELSE IF filteredResults = <<>> \/ ~pgInitialized
           THEN /\ Finish(t, issued)
                /\ UNCHANGED workspaceState
           ELSE /\ ticks' = [ticks EXCEPT ![t] =
                      [issued EXCEPT !.pc = "store",
                                     !.insertUserId = configUserId]]
                /\ UNCHANGED <<executionCount, errorCount, schedVars, workspaceState>>
    /\ UNCHANGED <<supabaseRetryCount, pgInitialized, userVars, sink, envVars,
                   lastQuery, sessionVars, pool>>

\* storeSimplePrompts from its first await on: k records are inserted, and
\* when k is less than the batch the next insert (or the connect) throws
TickStore(t, k) ==
    /\ t \in 1..Len(ticks) /\ ticks[t].pc = "store"
    /\ LET tick == ticks[t]
           records == RecordsToInsert(tick.filtered)
           after == InsertRows(sink, records, k, tick.insertUserId)
       IN  /\ k \in 0..Len(records)
           /\ k > 0 => tick.client \/ CanConnect
           /\ sink' = after
           /\ pool' = PoolAfterTick(tick, k = Len(records))
           /\ Finish(t, [tick EXCEPT
                           !.client = FALSE,
                           !.written = SubSeq(after, Len(sink) + 1, Len(after)),
                           !.raised = IF k < Len(records) THEN @ \cup {"sink"} ELSE @])
    /\ UNCHANGED <<supabaseRetryCount, pgInitialized, userVars, envVars,
                   lastQuery, sessionVars, workspaceState>>

-----------------------------------------------------------------------------
(* Scheduler commands and the timer *)

tickVars == <<executionCount, errorCount, supabaseRetryCount>>
restVars == <<pgInitialized, sink, envVars, extVars>>
\* What the commands that call saveState() leave alone
keptVars == <<pgInitialized, sink, envVars, lastQuery, sessionVars, pool>>

CanLaunch == Len(ticks) < MaxTicks

\* A start() without the already-running test (a variation used to test
\* C13)
StartUnguarded ==
    /\ CanLaunch
    /\ isRunning' = TRUE
    /\ intervalId' = intervalMinutes
    /\ armedTimers' = armedTimers + 1
    /\ Launch
    /\ workspaceState' = saveState(executionCount, errorCount)
    /\ UNCHANGED <<intervalMinutes, tickVars, keptVars>>

\* start(): no-op when running; else Running, the timer armed, and the
\* immediate tick begun
Start ==
    /\ IF isRunning
       THEN UNCHANGED <<schedVars, ticks, userVars, workspaceState>>
       ELSE /\ CanLaunch
            /\ isRunning' = TRUE
            /\ workspaceState' = saveState(executionCount, errorCount)
            /\ intervalId' = intervalMinutes
            /\ armedTimers' = armedTimers + 1
            /\ Launch
            /\ UNCHANGED intervalMinutes
    /\ UNCHANGED <<tickVars, keptVars>>

\* A stop() that also abandons the calls in progress (a variation used to
\* test C12)
StopCancels ==
    /\ isRunning
    /\ isRunning' = FALSE
    /\ intervalId' = 0
    /\ armedTimers' = AfterClear
    /\ ticks' = [t \in 1..Len(ticks) |->
                   IF ticks[t].pc = "done" THEN ticks[t]
                   ELSE [ticks[t] EXCEPT !.pc = "done", !.outcome = "error"]]
    /\ workspaceState' = saveState(executionCount, errorCount)
    /\ UNCHANGED <<intervalMinutes, tickVars, userVars, keptVars>>

\* A stop() that drops the handle without clearInterval (a variation used
\* to test C31)
StopForgetsTimer ==
    /\ IF ~isRunning
       THEN UNCHANGED <<schedVars, workspaceState>>
       ELSE /\ isRunning' = FALSE
            /\ intervalId' = 0
            /\ workspaceState' = saveState(executionCount, errorCount)
            /\ UNCHANGED <<intervalMinutes, armedTimers>>
    /\ UNCHANGED <<ticks, tickVars, userVars, keptVars>>

\* stop(): no-op when stopped; else Stopped and the timer cleared
Stop ==
    /\ IF ~isRunning
       THEN UNCHANGED <<schedVars, workspaceState>>
       ELSE /\ isRunning' = FALSE
            /\ intervalId' = 0
            /\ armedTimers' = AfterClear
            /\ workspaceState' = saveState(executionCount, errorCount)
            /\ UNCHANGED intervalMinutes
    /\ UNCHANGED <<ticks, tickVars, userVars, keptVars>>

\* The running flag after toggle(): stop() when running, else start()
RunningAfterToggle(running) == IF running THEN FALSE ELSE TRUE

\* A toggle() whose stop leaves the timer armed (a variation used to test
\* C28)
ToggleLeavesTimer ==
    IF isRunning
    THEN /\ isRunning' = FALSE
         /\ UNCHANGED <<intervalId, intervalMinutes, armedTimers, ticks, tickVars,
                        userVars, restVars>>
    ELSE Start

\* toggle()
Toggle == IF isRunning THEN Stop ELSE Start

\* setInterval() with the accepted input m: the period is stored and a
\* running scheduler is stopped and started again
SetInterval(m) ==
    /\ m >= 1
    /\ intervalMinutes' = m
    /\ workspaceState' = saveState(executionCount, errorCount)
    /\ IF isRunning
       THEN /\ CanLaunch
            /\ intervalId' = m
            /\ armedTimers' = AfterClear + 1
            /\ Launch
            /\ UNCHANGED isRunning
       ELSE UNCHANGED <<isRunning, intervalId, armedTimers, ticks, userVars>>
    /\ UNCHANGED <<tickVars, keptVars>>

\* The callback of the armed timer (lines 506-508): it calls
\* executeScheduledTask
TimerCallback ==
    /\ armedTimers > 0
    /\ Launch
    /\ UNCHANGED <<schedVars, tickVars, restVars>>

\* The armed timer fires
TimerFire == CanLaunch /\ TimerCallback

\* configurePostgres() -> PostgresManager.initialize(): the pool and the
\* configuration are set before the connection is tried
ConfigurePostgres ==
    /\ ~pgInitialized
    /\ pgInitialized' = TRUE
    /\ UNCHANGED <<schedVars, tickVars, userVars, sink, envVars, extVars, ticks>>

\* Half a second passes; the messages sent by then are in the source store
Advance ==
    /\ now + ClockStep <= EndNow
    /\ now' = now + ClockStep
    /\ source' = SourceAt(now + ClockStep)
    /\ UNCHANGED <<schedVars, tickVars, pgInitialized, userVars, sink,
                   tzOffsetMs, extVars, ticks>>

\* A command of the extension calls executeQuery with a statement (the
\* first such call is followed)
DirectQuery(query, store, run) ==
    /\ lastQuery = NoQuery
    /\ lastQuery' = executeQuery(query, store, run)
    /\ UNCHANGED <<schedVars, tickVars, userVars, pgInitialized, sink, envVars,
                   sessionVars, workspaceState, pool, ticks>>

-----------------------------------------------------------------------------

UserIds == {"u1"}
\* The input box of setInterval() is prefilled with the current period
Intervals == {DefaultIntervalMinutes}
QueryResults == {"ok", "unavailable", "sqlerror"}

\* activate() has built the managers (the flag is set by the constructor of
\* AutoStartupManager) and its deferred block has not run yet
Constructed == [phase |-> "constructed", enabledBefore |-> TRUE]
\* The deferred block of activate() has run
Started == [phase |-> "started", enabledBefore |-> TRUE]

Init ==
    /\ isRunning = FALSE
    /\ intervalId = 0
    /\ intervalMinutes = DefaultIntervalMinutes
    /\ armedTimers = 0
    /\ executionCount = 0
    /\ errorCount = 0
    /\ supabaseRetryCount = 0
    /\ pgInitialized = FALSE
    /\ configUserId \in UserIds
    /\ secretUserId = ""
    /\ sink = <<>>
    /\ now = StartNow
    /\ source = SourceAt(StartNow)
    /\ tzOffsetMs \in TzOffsets
    /\ lastQuery = NoQuery
    /\ workspaceState = NothingSaved
    /\ pool = PoolIdle
    /\ autoStartupEnabled = TRUE
    /\ activation = Constructed
    /\ ticks = <<>>

TickStep(t) ==
    \/ \E ok \in BOOLEAN : TickGetLast(t, ok)
    \/ \E ok \in BOOLEAN : TickLookup(t, ok)
    \/ \E res \in QueryResults : TickQuery(t, res)
    \/ \E k \in 0..Len(ticks[t].filtered) : TickStore(t, k)

Next ==
    \/ Start
    \/ Stop
    \/ Toggle
    \/ \E m \in Intervals : SetInterval(m)
    \/ TimerFire
    \/ ConfigurePostgres
    \/ Advance
    \/ \E t \in 1..Len(ticks) : TickStep(t)

Spec == Init /\ [][Next]_vars

-----------------------------------------------------------------------------
(* Steady operation: the scheduler is started once and left alone, the     *)
(* source and the sink answer every request, and the timer fires when no   *)
(* call is in progress (the period is at least a minute).                  *)

SteadyTimerFire == InFlight = {} /\ CanLaunch /\ TimerCallback

SteadyTickStep(t) ==
    \/ TickGetLast(t, TRUE)
    \/ TickLookup(t, TRUE)
    \/ TickQuery(t, "ok")
    \/ TickStore(t, Len(RecordsToInsert(ticks[t].filtered)))

NextSteady ==
    \/ ConfigurePostgres
    \/ Start
    \/ SteadyTimerFire
    \/ Advance
    \/ \E t \in 1..Len(ticks) : SteadyTickStep(t)

SpecSteady == Init /\ [][NextSteady]_vars

-----------------------------------------------------------------------------
(* Sink outage: the scheduler is started once, the sink refuses every      *)
(* request, and the timer fires when no call is in progress, up to the     *)
(* maxRetries-th call.                                                     *)

RetryTimerFire == InFlight = {} /\ Len(ticks) < maxRetries /\ TimerCallback

RetryTickStep(t) ==
    \/ TickGetLast(t, FALSE)
    \/ \E res \in QueryResults : TickQuery(t, res)
    \/ TickStore(t, 0)

NextRetry ==
    \/ ConfigurePostgres
    \/ Start
    \/ RetryTimerFire
    \/ Advance
    \/ \E t \in 1..Len(ticks) : RetryTickStep(t)

SpecRetry == Init /\ [][NextRetry]_vars

-----------------------------------------------------------------------------
(* Commands that query the source: the scheduler with all its commands,   *)
(* a source and a sink that answer every request, and a command of the     *)
(* extension that calls executeQuery with a statement of its own.          *)

\* "SELECT 1", "  select 1", "\nWITH t", "With t", "PRAGMA t", "delete",
\* " INSERT", "(select", "sel" and the empty statement
Statements ==
    { <<"S", "E", "L", "E", "C", "T", " ", "1">>,
      <<" ", " ", "s", "e", "l", "e", "c", "t", " ", "1">>,
      <<"\n", "W", "I", "T", "H", " ", "t">>,
      <<"W", "i", "t", "h", " ", "t">>,
      <<"P", "R", "A", "G", "M", "A", " ", "t">>,
      <<"d", "e", "l", "e", "t", "e">>,
      <<" ", "I", "N", "S", "E", "R", "T">>,
      <<"(", "s", "e", "l", "e", "c", "t">>,
      <<"s", "e", "l">>,
      <<>> }

StoreStates == {"present", "unavailable"}
RunResults == {"ok", "sqlerror"}

NextDirect ==
    \/ ConfigurePostgres
    \/ Start
    \/ Stop
    \/ Toggle
    \/ \E m \in Intervals : SetInterval(m)
    \/ TimerFire
    \/ Advance
    \/ \E t \in 1..Len(ticks) : SteadyTickStep(t)
    \/ \E query \in Statements, store \in StoreStates, run \in RunResults :
           DirectQuery(query, store, run)

SpecDirect == Init /\ [][NextDirect]_vars

-----------------------------------------------------------------------------
(* Properties *)

\* The instant (epoch milliseconds, UTC) a sink timestamp text denotes
InstantOf(text) == text.sec * MsPerSec

Rows(seq) == { seq[i] : i \in 1..Len(seq) }

\* Tick i had ended when tick j began, and j is the next call after i
Consecutive(i, j) ==
    /\ i \in 1..Len(ticks) /\ j \in 1..Len(ticks)
    /\ j = i + 1
    /\ i \in ticks[j].after

\* C1: for two consecutive ticks of the same user that both reach
\* extraction, the lower bound of the later one is not below the greatest
\* timestamp among the rows the earlier one wrote.
C1_NoWatermarkRegression ==
    \A i \in 1..Len(ticks), j \in 1..Len(ticks) :
        ( /\ Consecutive(i, j)
          /\ ticks[i].userId = ticks[j].userId
          /\ ticks[i].lowerBound # <<>>
          /\ ticks[j].lowerBound # <<>> )
        => \A r \in Rows(ticks[i].written) :
               ticks[j].lowerBound[1] >= InstantOf(r.timestamp)

\* C2: a response whose row an earlier tick wrote is not written again by a
\* tick that began after the earlier one had ended.
C2_NoReprocessing ==
    \A i \in 1..Len(ticks), j \in 1..Len(ticks) :
        i \in ticks[j].after
        => { r.bubble : r \in Rows(ticks[i].written) }
             \cap { r.bubble : r \in Rows(ticks[j].written) } = {}

\* C3: no tick writes a row whose (timestamp, user_id) equals the
\* checkpoint row the same tick resolved as its watermark.
C3_BoundaryIdempotence ==
    \A t \in 1..Len(ticks) :
        ticks[t].checkpoint # <<>>
        => \A r \in Rows(ticks[t].written) :
               ~ ( /\ r.timestamp = ticks[t].checkpoint[1].timestamp
                   /\ r.user_id = ticks[t].checkpoint[1].user_id )

\* C4: at most one tick body is in progress at any time.
C4_SingleFlight == Cardinality(InFlight) <= 1

\* C5: the checkpoint a tick read is a row of greatest timestamp among the
\* rows of the configured user (all rows when none is configured) that the
\* sink held at the read.
C5_CheckpointIsMaxTimestamp ==
    \A t \in 1..Len(ticks) :
        ticks[t].checkpoint # <<>>
        => \A i \in 1..ticks[t].readLen :
               (ticks[t].userId = "" \/ sink[i].user_id = ticks[t].userId)
               => InstantOf(sink[i].timestamp)
                    <= InstantOf(ticks[t].checkpoint[1].timestamp)

\* C8: the lower bound of a tick that kept the fallback is one fixed value,
\* the same for every tick, and below the send time of every response.
C8_FixedEpochFallback ==
    \A t \in 1..Len(ticks), u \in 1..Len(ticks) :
        ( /\ ticks[t].path = "fallback" /\ ticks[t].lowerBound # <<>>
          /\ ticks[u].path = "fallback" /\ ticks[u].lowerBound # <<>> )
        => /\ ticks[t].lowerBound = ticks[u].lowerBound
           /\ \A i \in 1..Len(Script) :
                  Script[i].type = 2 => ticks[t].lowerBound[1] < Script[i].sendTime

\* C10: every ended tick in which the watermark fetch, the source, the
\* extraction query or a sink write raised an error has added 1 to
\* errorCount.
C10_EveryErrorCounted ==
    errorCount >= Cardinality({ t \in Ended :
                      ticks[t].raised \cap {"watermark", "source", "query", "sink"} # {} })

\* A step of a tick: a call moves on, no call begins
TickStepTaken == Len(ticks') = Len(ticks) /\ ticks' # ticks

\* Tick t's watermark fetch failed with the counter, after the increment,
\* below maxRetries
FailedBelowMax(tick) ==
    /\ "watermark" \in tick.raised
    /\ tick.failCount \in 1..(maxRetries - 1)

\* The step in which a watermark fetch fails below maxRetries ends the tick
\* and leaves the sink and the scheduler as they were
AbortRetryStep ==
    \A t \in 1..Len(ticks) :
        ( /\ TickStepTaken
          /\ ticks[t].pc = "getLast"
          /\ FailedBelowMax(ticks'[t]) )
        => /\ ticks'[t].pc = "done"
           /\ ticks'[t].outcome = "abortRetry"
           /\ sink' = sink
           /\ schedVars' = schedVars

\* A tick whose watermark fetch failed below maxRetries has issued no
\* extraction query and written no row
AbortRetryKept ==
    \A t \in 1..Len(ticks) :
        FailedBelowMax(ticks[t])
        => /\ ticks[t].outcome = "abortRetry"
           /\ ticks[t].lowerBound = <<>>
           /\ ticks[t].written = <<>>

\* C6: when the watermark fetch of a tick fails and the failure counter
\* after the increment is below maxRetries, the tick ends there: it issues
\* no extraction query and writes no row, the sink is untouched, and the
\* scheduler's running flag, timer and period are as they were.
C6_AbortBelowMax == [][AbortRetryStep]_vars /\ []AbortRetryKept

\* C6 witness: a tick whose watermark fetch failed below maxRetries has
\* ended while the scheduler is running with its timer armed.
C6_Witness ==
    \E t \in Ended :
        /\ FailedBelowMax(ticks[t])
        /\ ticks[t].outcome = "abortRetry"
        /\ isRunning /\ intervalId # 0

\* C7: the tick in which the failure counter reaches maxRetries goes on to
\* the extraction query with the fallback lower bound, and the counter is 0
\* when it has ended.
C7_ProceedsAtMax ==
    \A t \in Ended :
        ticks[t].failCount = maxRetries
        => /\ ticks[t].outcome # "abortRetry"
           /\ ticks[t].path = "fallback"
           /\ ticks[t].lowerBound # <<>>

\* No step of a tick changes the running flag, the timer or the period
TickStepKeepsScheduler == TickStepTaken => schedVars' = schedVars

\* Every tick that has ended returned normally, aborted for retry, or had
\* its error caught at the tick boundary
NoEscape ==
    \A t \in Ended : ticks[t].outcome \in {"ok", "abortRetry", "error"}

\* C9: no tick outcome changes the scheduler's lifetime: every step of a
\* tick leaves the running flag, the timer and the period as they were, and
\* no error escapes a tick.
C9_LifetimeUnchanged == [][TickStepKeepsScheduler]_vars /\ []NoEscape

\* C9 witness: ticks have ended with an error caught at the boundary and
\* with an abort for retry, and the scheduler is running with its timer
\* armed at the period.
C9_Witness ==
    /\ \E t \in Ended : ticks[t].outcome = "error"
    /\ \E t \in Ended : ticks[t].outcome = "abortRetry"
    /\ isRunning /\ intervalId = intervalMinutes

\* A tick ends in this step
EndsNow(t) == t \in 1..Len(ticks) /\ ticks[t].pc # "done" /\ ticks'[t].pc = "done"

\* C11: every step in which a tick ends, whatever its outcome and whether
\* or not stop() was called meanwhile, adds exactly 1 to
\* executionCount + errorCount.
C11_EveryTickCounted ==
    [][ \A t \in 1..Len(ticks) :
          (TickStepTaken /\ EndsNow(t))
          => executionCount' + errorCount' = executionCount + errorCount + 1 ]_vars

\* The step of a stop() that finds the scheduler running
StopTaken == isRunning /\ ~isRunning'

\* stop() clears the timer and leaves every call, the counters and the sink
\* as they are
StopStep == StopTaken => (intervalId' = 0 /\ ticks' = ticks /\ sink' = sink
                            /\ tickVars' = tickVars)

\* While the scheduler stays stopped no call begins
NoTickWhileStopped == (~isRunning /\ ~isRunning') => Len(ticks') = Len(ticks)

\* Every call in progress is suspended at one of its awaits, running or
\* stopped: none is marked abandoned
InFlightCanStep ==
    \A t \in InFlight :
        /\ ticks[t].pc \in {"getLast", "lookup", "query", "store"}
        /\ ticks[t].outcome = "running"

\* C12: stop() moves the scheduler to Stopped and clears the timer without
\* touching a tick in progress, which stays suspended at its await and
\* takes its remaining steps (its sink writes included), and no tick begins
\* while the scheduler stays stopped.
C12_StopKeepsTickRunning ==
    [][StopStep /\ NoTickWhileStopped]_vars
    /\ [](~isRunning => intervalId = 0)
    /\ []InFlightCanStep

\* C12 witness: the scheduler is stopped with its timer cleared while a tick
\* launched earlier is about to write its rows.
C12_Witness ==
    /\ ~isRunning /\ intervalId = 0
    /\ \E t \in InFlight : ticks[t].pc = "store" /\ ticks[t].filtered # <<>>

\* C13: a start() that finds the scheduler running begins no tick, leaves
\* the timer, the running flag, the period and the counters as they are,
\* and changes nothing else.
C13_StartWhileRunningIsNoOp ==
    [][ (isRunning /\ Start)
        => /\ Len(ticks') = Len(ticks)
           /\ schedVars' = schedVars
           /\ tickVars' = tickVars
           /\ vars' = vars ]_vars

\* C13 witness: the scheduler is running with its timer armed, its
\* immediate tick has ended, and a further start() can be called.
C13_Witness ==
    /\ isRunning /\ intervalId # 0
    /\ Ended # {}
    /\ CanLaunch

-----------------------------------------------------------------------------
(* Unattended operation: the scheduler is started once and then only the   *)
(* timer launches ticks; the source and the sink may fail.                 *)

NextTimer ==
    \/ ConfigurePostgres
    \/ Start
    \/ TimerFire
    \/ Advance
    \/ \E t \in 1..Len(ticks) : TickStep(t)

SpecTimer == Init /\ [][NextTimer]_vars

\* The step of a start() that finds the scheduler stopped
StartTaken == ~isRunning /\ isRunning'

\* C14: a start() from Stopped begins exactly one tick, and the timer is
\* armed only after that tick: stated for the first start() of a run, whose
\* immediate tick is tick 1, no timer-driven tick begins before tick 1 has
\* ended.
C14_TimerAfterImmediateTick ==
    [][ /\ StartTaken => Len(ticks') = Len(ticks) + 1
        /\ TimerFire => 1 \in Ended ]_vars

-----------------------------------------------------------------------------
(* Changing the period: the commands of the scheduler with setInterval()   *)
(* given the least accepted period or the default one.                     *)

MinIntervalMinutes == 1
PeriodInputs == {MinIntervalMinutes, DefaultIntervalMinutes}

NextPeriod ==
    \/ ConfigurePostgres
    \/ Start
    \/ Stop
    \/ \E m \in PeriodInputs : SetInterval(m)
    \/ \E t \in 1..Len(ticks) : TickStep(t)

SpecPeriod == Init /\ [][NextPeriod]_vars

\* C15: setInterval(m) stores the period and nothing more: it begins no
\* tick, leaves the running flag as it is, and the armed timer keeps the
\* period it was armed with.
C15_SetIntervalOnlyPersists ==
    [][ \A m \in PeriodInputs :
          SetInterval(m)
          => /\ intervalMinutes' = m
             /\ isRunning' = isRunning
             /\ intervalId' = intervalId
             /\ Len(ticks') = Len(ticks) ]_vars

-----------------------------------------------------------------------------
(* One call on a given store: a tick suspended at the exact-milliseconds   *)
(* lookup with a given checkpoint, or at the extraction query with a given *)
(* timestampToUse, over stores of four messages in up to two sessions.     *)

OtherComposer == "c2"
ProbeIds == 1..4
ProbeTexts == <<"m1", "m2", "m3", "m4">>

\* type of each message: 1 = prompt, 2 = response
ProbeKinds == [ProbeIds -> {1, 2}]

\* clientRpcSendTime of each message
ProbeTimes ==
    { <<2 * MsPerSec, 2 * MsPerSec, 2 * MsPerSec + ClockStep, 3 * MsPerSec>>,
      <<2 * MsPerSec, 2 * MsPerSec + ClockStep, NoTime, 3 * MsPerSec>>,
      <<3 * MsPerSec, 2 * MsPerSec + ClockStep, 2 * MsPerSec, 2 * MsPerSec>> }

\* fullConversationHeadersOnly of each session
ProbeLayouts ==
    { [c \in {Composer, OtherComposer} |-> IF c = Composer THEN <<1, 2, 3, 4>> ELSE <<>>],
      [c \in {Composer, OtherComposer} |-> IF c = Composer THEN <<1, 2>> ELSE <<3, 4>>],
      [c \in {Composer, OtherComposer} |-> IF c = Composer THEN <<2, 1>> ELSE <<4>>] }

\* The session whose list holds message i (the first session when none)
ProbeComposerOf(layout, i) ==
    IF \E p \in 1..Len(layout[OtherComposer]) : layout[OtherComposer][p] = i
    THEN OtherComposer ELSE Composer

ProbeSource(kinds, times, layout) ==
    [bubbles |-> { [composer |-> ProbeComposerOf(layout, i), id |-> i,
                    type |-> kinds[i], text |-> ProbeTexts[i],
                    sendTime |-> times[i]] : i \in ProbeIds },
     sessions |-> layout]

ProbeSources ==
    { ProbeSource(k, tm, l) : k \in ProbeKinds, tm \in ProbeTimes, l \in ProbeLayouts }

\* timestampToUse at the extraction query: raw milliseconds, or a text
ProbeStamps ==
    { StampMs(0), StampMs(2 * MsPerSec), StampMs(2 * MsPerSec + ClockStep),
      StampText(Text("T", 2, 0)), StampText(Text("T", 3, 0)) }

\* timestamp of the checkpoint row
ProbeCheckpoints ==
    { Text(" ", 1, 0), Text(" ", 2, 0), Text("T", 2, 0), Text(" ", 3, 0) }

ProbeAtQuery(stamp) ==
    [NewTick(StartNow, {}, FALSE, "") EXCEPT !.timestampToUse = stamp]

ProbeAtLookup(text) ==
    [NewTick(StartNow, {}, TRUE, "") EXCEPT
        !.pc = "lookup",
        !.checkpoint = << [timestamp |-> text, prompt |-> "m1",
                            user_id |-> "local_user", bubble |-> 0] >>]

InitProbe ==
    /\ isRunning = TRUE
    /\ intervalId = DefaultIntervalMinutes
    /\ intervalMinutes = DefaultIntervalMinutes
    /\ armedTimers = 1
    /\ executionCount = 0
    /\ errorCount = 0
    /\ supabaseRetryCount = 0
    /\ pgInitialized = TRUE
    /\ configUserId = ""
    /\ secretUserId = ""
    /\ sink = <<>>
    /\ now = StartNow
    /\ source \in ProbeSources
    /\ tzOffsetMs \in TzOffsets
    /\ lastQuery = NoQuery
    /\ workspaceState = NothingSaved
    /\ pool = PoolIdle
    /\ autoStartupEnabled = TRUE
    /\ activation = Started
    /\ \/ \E stamp \in ProbeStamps : ticks = << ProbeAtQuery(stamp) >>
       \/ \E text \in ProbeCheckpoints : ticks = << ProbeAtLookup(text) >>

NextProbe ==
    \/ TickLookup(1, TRUE)
    \/ TickQuery(1, "ok")

SpecProbe == InitProbe /\ [][NextProbe]_vars

-----------------------------------------------------------------------------
(* One store of a given batch: a tick about to call storeSimplePrompts     *)
(* with two payloads, one of them with any combination of the accepted     *)
(* fields; each insert may be refused by the sink.                         *)

\* The payloads: each accepted time field absent or set (timestamp also
\* empty), each accepted text field absent or set (prompt also empty)
BatchPayloads ==
    [timestamp : {NullText, EmptyText, Text(" ", 2, 0)},
     created_at : {NullText, Text(" ", 3, 0)},
     time : {NullText, Text(" ", 4, 0)},
     prompt : {Null, "", "viaPrompt"},
     text : {Null, "viaText"},
     message : {Null, "viaMessage"},
     content : {Null, "viaContent"}]

\* The payload it is batched with: a row of the extraction query, complete,
\* without timestamp, or without prompt
BatchCompanions ==
    { [timestamp |-> Text(" ", 5, 0), prompt |-> "p"],
      [timestamp |-> NullText, prompt |-> "p"],
      [timestamp |-> Text(" ", 5, 0), prompt |-> Null] }

\* The payload with the number of its place in the batch
Numbered(payload, n) ==
    [ f \in DOMAIN payload \cup {"bubble"} |->
        IF f = "bubble" THEN n ELSE payload[f] ]

Batches ==
    UNION { { << Numbered(p, 1), Numbered(q, 2) >>,
              << Numbered(q, 1), Numbered(p, 2) >> } :
            p \in BatchPayloads, q \in BatchCompanions }

BatchAtStore(batch) ==
    [NewTick(StartNow, {}, FALSE, "") EXCEPT
        !.pc = "store",
        !.lowerBound = <<0>>,
        !.results = batch,
        !.filtered = batch]

InitBatch ==
    /\ isRunning = TRUE
    /\ intervalId = DefaultIntervalMinutes
    /\ intervalMinutes = DefaultIntervalMinutes
    /\ armedTimers = 1
    /\ executionCount = 0
    /\ errorCount = 0
    /\ supabaseRetryCount = 0
    /\ pgInitialized = TRUE
    /\ configUserId = ""
    /\ secretUserId = ""
    /\ sink = <<>>
    /\ now = StartNow
    /\ source = SourceAt(StartNow)
    /\ tzOffsetMs = 0
    /\ lastQuery = NoQuery
    /\ workspaceState = NothingSaved
    /\ pool = PoolIdle
    /\ autoStartupEnabled = TRUE
    /\ activation = Started
    /\ \E batch \in Batches : ticks = << BatchAtStore(batch) >>

NextBatch == \E k \in 0..Len(ticks[1].filtered) : TickStore(1, k)

SpecBatch == InitBatch /\ [][NextBatch]_vars

-----------------------------------------------------------------------------
(* Properties of one extraction *)

\* The ticks whose extraction query has returned
Queried == { t \in 1..Len(ticks) : ticks[t].lowerBound # <<>> /\ "query" \notin ticks[t].raised }

\* The message with id i
MessageOf(i) == CHOOSE b \in source.bubbles : b.id = i

\* Message i is a response with a send time above the bound
Qualifies(i, bound) ==
    /\ MessageOf(i).type = 2
    /\ MessageOf(i).sendTime # NoTime
    /\ MessageOf(i).sendTime > bound

\* The places <<session, position>> of the store, positions counted from 0
Places ==
    UNION { { <<c, p>> : p \in 0..(Len(source.sessions[c]) - 1) } :
              c \in DOMAIN source.sessions }

MessageAt(place) == source.sessions[place[1]][place[2] + 1]

\* The records of a result that came from message i
RecordsOf(rows, i) == { n \in 1..Len(rows) : rows[n].bubble = i }

\* C16: an extraction returns exactly one record for each response with a
\* send time above the lower bound at a position p >= 1 of a session, made of
\* the response's rendered send time and the text of the message at p - 1 of
\* that session; every record comes from such a response at some position;
\* and the records are in descending order of send time.
C16_ExtractionPairsPrompts ==
    \A t \in Queried :
        LET rows == ticks[t].results
            bound == ticks[t].lowerBound[1]
        IN  /\ \A place \in Places :
                  (place[2] >= 1 /\ Qualifies(MessageAt(place), bound))
                  => /\ Cardinality(RecordsOf(rows, MessageAt(place))) = 1
                     /\ \A n \in RecordsOf(rows, MessageAt(place)) :
                            /\ rows[n].timestamp = Render(MessageOf(MessageAt(place)).sendTime)
                            /\ rows[n].prompt =
                                 MessageOf(MessageAt(<<place[1], place[2] - 1>>)).text
            /\ \A n \in 1..Len(rows) :
                  \E place \in Places :
                      MessageAt(place) = rows[n].bubble /\ Qualifies(rows[n].bubble, bound)
            /\ \A n \in 1..Len(rows), k \in 1..Len(rows) :
                  n < k => MessageOf(rows[n].bubble).sendTime
                             >= MessageOf(rows[k].bubble).sendTime

\* C16 witness: the session [U1, A1, U2, A2] queried from 0 has returned
\* [(A2.time, U2.text), (A1.time, U1.text)].
C16_Witness ==
    \E t \in Queried :
        /\ source.sessions[Composer] = <<1, 2, 3, 4>>
        /\ ticks[t].lowerBound = <<0>>
        /\ ticks[t].results =
             << [timestamp |-> Text(" ", 3, 0), prompt |-> "m3", bubble |-> 4],
                [timestamp |-> Text(" ", 2, 0), prompt |-> "m1", bubble |-> 2] >>

\* The places holding a response with a send time above the bound
QualifyingPlaces(bound) == { place \in Places : Qualifies(MessageAt(place), bound) }

\* C17: for a response at position 0 of its session the extraction returns
\* one record with its rendered send time and an absent prompt, the query
\* raises no error, and the result holds one record per qualifying response
\* as it does without it.
C17_FirstPositionHasNoPrompt ==
    \A t \in Queried :
        LET rows == ticks[t].results
            bound == ticks[t].lowerBound[1]
        IN  /\ \A place \in QualifyingPlaces(bound) :
                  place[2] = 0
                  => /\ Cardinality(RecordsOf(rows, MessageAt(place))) = 1
                     /\ \A n \in RecordsOf(rows, MessageAt(place)) :
                            /\ rows[n].prompt = Null
                            /\ rows[n].timestamp = Render(MessageOf(MessageAt(place)).sendTime)
            /\ Len(rows) = Cardinality(QualifyingPlaces(bound))
            /\ ticks[t].raised = {}
            /\ ticks[t].outcome # "error"

\* C17 witness: a session that begins with a response has been queried
\* from below its send time, and the result holds another record as well.
C17_Witness ==
    \E t \in Queried :
        /\ \E place \in QualifyingPlaces(ticks[t].lowerBound[1]) : place[2] = 0
        /\ \E n \in 1..Len(ticks[t].results) : ticks[t].results[n].prompt = Null
        /\ \E n \in 1..Len(ticks[t].results) : ticks[t].results[n].prompt # Null

\* C18: an extraction returns no response whose send time is at or below
\* the lower bound, and none whose send time is absent.
C18_ExclusiveBoundary ==
    \A t \in Queried :
        \A n \in 1..Len(ticks[t].results) :
            /\ MessageOf(ticks[t].results[n].bubble).sendTime # NoTime
            /\ MessageOf(ticks[t].results[n].bubble).sendTime > ticks[t].lowerBound[1]

\* C18 witness: the store holds, each at a place of a session, a response
\* sent exactly at the lower bound and a response without send time, and
\* the extraction has returned a record.
C18_Witness ==
    \E t \in Queried :
        /\ \E place \in Places :
              /\ MessageOf(MessageAt(place)).type = 2
              /\ MessageOf(MessageAt(place)).sendTime = ticks[t].lowerBound[1]
        /\ \E place \in Places :
              /\ MessageOf(MessageAt(place)).type = 2
              /\ MessageOf(MessageAt(place)).sendTime = NoTime
        /\ ticks[t].results # <<>>

-----------------------------------------------------------------------------
(* Properties of one watermark resolution *)

\* The ticks that read a checkpoint and whose exact lookup was answered
Resolved ==
    { t \in 1..Len(ticks) :
        /\ ticks[t].checkpoint # <<>>
        /\ ticks[t].pc \notin {"getLast", "lookup"}
        /\ "lookup" \notin ticks[t].raised }

\* The raw send times of the responses whose rendered send time is the
\* text, whichever separator the text has
RawTimesShownAs(text) ==
    { b.sendTime : b \in { m \in source.bubbles :
                              /\ m.type = 2
                              /\ m.sendTime # NoTime
                              /\ m.sendTime \div MsPerSec = text.sec
                              /\ text.frac = 0 } }

\* C19: when the checkpoint's timestamp is the rendered send time of a
\* response in the store, the lower bound is the raw send time of such a
\* response, in milliseconds, and not a parse of the text; the text is
\* parsed only when no response matches.
C19_ExactLowerBound ==
    \A t \in Resolved :
        LET text == ticks[t].checkpoint[1].timestamp
            raw == RawTimesShownAs(text)
        IN  IF raw # {}
            THEN /\ ticks[t].path = "exact"
                 /\ ticks[t].timestampToUse.kind = "ms"
                 /\ ticks[t].timestampToUse.ms \in raw
                 /\ ticks[t].lowerBound # <<>>
                    => ticks[t].lowerBound[1] = ticks[t].timestampToUse.ms
            ELSE /\ ticks[t].path = "parse"
                 /\ ticks[t].timestampToUse.kind = "text"
                 /\ ticks[t].lowerBound # <<>>
                    => ticks[t].lowerBound[1] = text.sec * MsPerSec + text.frac - tzOffsetMs

\* C19 witness: a checkpoint of second 2 was resolved, on a host east of
\* UTC, to the raw send time 2500 ms of a response of that second, and the
\* extraction query ran with that lower bound.
C19_Witness ==
    \E t \in Resolved :
        /\ ticks[t].checkpoint[1].timestamp = Text(" ", 2, 0)
        /\ tzOffsetMs # 0
        /\ ticks[t].path = "exact"
        /\ ticks[t].lowerBound = << 2 * MsPerSec + ClockStep >>

\* C20: the dedup filter returns the records of the extraction in their
\* order, without exactly those whose timestamp denotes the instant of the
\* lower bound.
C20_DedupRemovesBoundOnly ==
    \A t \in Queried :
        ticks[t].filtered =
            SelectSeq(ticks[t].results,
                      LAMBDA r : InstantOf(r.timestamp) # ticks[t].lowerBound[1])

-----------------------------------------------------------------------------
(* Properties of one store *)

\* C21: when an insert of a batch fails after the connection was obtained
\* and a row was written, every other record of the batch is still
\* inserted: the tick has written all its records but one.
C21_FailureKeepsRestOfBatch ==
    \A t \in Ended :
        ("sink" \in ticks[t].raised /\ ticks[t].written # <<>>)
        => Len(ticks[t].written) >= Len(RecordsToInsert(ticks[t].filtered)) - 1

\* The first value of a list that is present (neither absent nor empty);
\* <<>> when there is none
FirstPresent(values, Absent) ==
    LET here == { i \in 1..Len(values) : values[i] \notin Absent }
    IN  IF here = {} THEN <<>>
        ELSE << values[CHOOSE i \in here : \A j \in here : i <= j] >>

TimeOf(payload) ==
    FirstPresent([ i \in 1..3 |->
                     Field(payload, <<"timestamp", "created_at", "time">>[i], NullText) ],
                 {NullText, EmptyText})

TextOf(payload) ==
    FirstPresent([ i \in 1..4 |->
                     Field(payload, <<"prompt", "text", "message", "content">>[i], Null) ],
                 {Null, ""})

\* The places of a batch whose payload resolves a time field and a text
\* field
Insertable(batch) ==
    { n \in 1..Len(batch) : TimeOf(batch[n]) # <<>> /\ TextOf(batch[n]) # <<>> }

\* C22: a store that met no sink error has ended without error and has
\* written one row for each payload that resolves a time field and a text
\* field, in the order of the batch, holding the first present of
\* timestamp, created_at, time and the first present of prompt, text,
\* message, content; the payloads that resolve no time field or no text
\* field have no row.
C22_FieldResolution ==
    \A t \in Ended :
        "sink" \notin ticks[t].raised
        => LET batch == ticks[t].filtered
               rows == ticks[t].written
           IN  /\ ticks[t].outcome = "ok"
               /\ ticks[t].raised = {}
               /\ Len(rows) = Cardinality(Insertable(batch))
               /\ \A n \in Insertable(batch) :
                      LET place == Cardinality({ m \in Insertable(batch) : m <= n })
                      IN  /\ rows[place].bubble = n
                          /\ rows[place].timestamp = TimeOf(batch[n])[1]
                          /\ rows[place].prompt = TextOf(batch[n])[1]

\* C22 witness: a batch whose first payload has no text field and whose
\* second payload has an empty timestamp, a created_at, no prompt and a
\* message was stored: the sink holds one row, made of the created_at and
\* the message.
C22_Witness ==
    \E t \in Ended :
        /\ "sink" \notin ticks[t].raised
        /\ Len(ticks[t].filtered) = 2
        /\ TextOf(ticks[t].filtered[1]) = <<>>
        /\ Field(ticks[t].filtered[2], "timestamp", NullText) = EmptyText
        /\ TimeOf(ticks[t].filtered[2]) = << Text(" ", 3, 0) >>
        /\ TextOf(ticks[t].filtered[2]) = << "viaMessage" >>
        /\ sink = << [timestamp |-> Text(" ", 3, 0), prompt |-> "viaMessage",
                      user_id |-> "local_user", bubble |-> 2] >>

-----------------------------------------------------------------------------
(* Frame properties of the sink and the source *)

\* Every row the sink held is still there, unchanged and in its place, and
\* rows are added only by a step that ends a tick
SinkOnlyGrows ==
    /\ Len(sink') >= Len(sink)
    /\ SubSeq(sink', 1, Len(sink)) = sink
    /\ sink' # sink => (TickStepTaken /\ \E t \in 1..Len(ticks) : EndsNow(t))

\* The rows a tick wrote are made, in order, of records of its filtered
\* extraction, and those are records the extraction returned which the
\* dedup filter of that tick let through
WrittenFromFiltered ==
    \A t \in 1..Len(ticks) :
        /\ \A n \in 1..Len(ticks[t].written) :
               \E m \in 1..Len(ticks[t].filtered) :
                   /\ ticks[t].written[n].timestamp = ticks[t].filtered[m].timestamp
                   /\ ticks[t].written[n].prompt = ticks[t].filtered[m].prompt
                   /\ ticks[t].written[n].bubble = ticks[t].filtered[m].bubble
        /\ \A m \in 1..Len(ticks[t].filtered) :
               /\ \E n \in 1..Len(ticks[t].results) :
                      ticks[t].results[n] = ticks[t].filtered[m]
               /\ <<ticks[t].filtered[m]>> =
                      DedupFilter(<<ticks[t].filtered[m]>>, ticks[t].timestampToUse, tzOffsetMs)

\* The sink is the rows the ticks wrote and nothing else
SinkIsWhatTicksWrote ==
    /\ \A i \in 1..Len(sink) : \E t \in 1..Len(ticks) : sink[i] \in Rows(ticks[t].written)
    /\ \A t \in 1..Len(ticks) : Rows(ticks[t].written) \subseteq Rows(sink)

\* C23: no step of the scheduler or of a tick updates or deletes a row of
\* the sink: every step leaves the rows already there in place and rows are
\* added only by a tick; and every row a tick added is made of a record of
\* its extraction that passed its dedup filter.
C23_SinkAppendOnly ==
    [][SinkOnlyGrows]_vars /\ []WrittenFromFiltered /\ []SinkIsWhatTicksWrote

\* C23 witness: two ticks have each written rows, the later one a row with
\* the timestamp of a row already stored, and the scheduler was stopped
\* afterwards: the sink holds the rows of both.
C23_Witness ==
    /\ ~isRunning
    /\ \E t \in Ended, u \in Ended :
          /\ t < u
          /\ ticks[t].written # <<>>
          /\ ticks[u].written # <<>>
          /\ \E r \in Rows(ticks[t].written), q \in Rows(ticks[u].written) :
                 r.timestamp = q.timestamp
          /\ Len(sink) = Len(ticks[t].written) + Len(ticks[u].written)

\* The source store changes only in a step of the monitored application:
\* the clock moves, and no tick, scheduler field or executeQuery call does
SourceChangedByApplicationOnly ==
    source' # source
    => /\ now' # now
       /\ ticks' = ticks
       /\ schedVars' = schedVars
       /\ sink' = sink
       /\ lastQuery' = lastQuery

\* The text without its leading whitespace
RECURSIVE SkipWhitespace(_)
SkipWhitespace(text) ==
    IF text # <<>> /\ Head(text) \in Whitespace THEN SkipWhitespace(Tail(text)) ELSE text

\* The statement begins with the word, in whatever case it is typed
BeginsWith(text, word) ==
    LET body == SkipWhitespace(text)
    IN  /\ Len(body) >= Len(word)
        /\ \A i \in 1..Len(word) :
               \/ body[i] = word[i]
               \/ \E u \in 1..Len(UpperCase) : body[i] = UpperCase[u] /\ word[i] = LowerCase[u]

BeginsWithSelectOrWith(text) ==
    \/ BeginsWith(text, <<"s", "e", "l", "e", "c", "t">>)
    \/ BeginsWith(text, <<"w", "i", "t", "h">>)

\* An executeQuery call with a statement that does not begin with SELECT or
\* WITH has thrown without having read the store
OtherStatementsRejected ==
    (lastQuery # NoQuery /\ ~BeginsWithSelectOrWith(lastQuery.query))
    => /\ lastQuery.outcome = "throws"
       /\ ~lastQuery.read

\* C24: the source store is read-only for the program: it changes only in
\* steps of the monitored application, never in a step of a tick, of a
\* scheduler command or of an executeQuery call; and executeQuery throws,
\* without having read the store, for every statement that does not begin
\* with SELECT or WITH.
C24_SourceReadOnly ==
    [][SourceChangedByApplicationOnly]_vars /\ []OtherStatementsRejected

\* C24 witness: a PRAGMA statement was refused by the validation while the
\* store was present, and a tick has read the store and written rows.
C24_Witness ==
    /\ lastQuery.query = <<"P", "R", "A", "G", "M", "A", " ", "t">>
    /\ lastQuery.outcome = "throws" /\ lastQuery.error = "notAllowed"
    /\ source.bubbles # {}
    /\ \E t \in Ended : ticks[t].written # <<>>

\* C25: a tick in which a read of the source store failed (the store was
\* missing or unreadable at the exact-milliseconds lookup or at the
\* extraction, or the extraction query failed) has written no row.
C25_SourceFailureWritesNothing ==
    \A t \in 1..Len(ticks) :
        ticks[t].raised \cap {"lookup", "source", "query"} # {}
        => ticks[t].written = <<>>

------------------------------------------------------------------------

-----------------------------------------------------------------------------
(* Time passing after a manual stop: the user starts and stops the         *)
(* scheduler, and sixty minutes pass while it is stopped.                  *)

RecoveryMinutes == 60
MsPerMinute == 60 * MsPerSec

\* Sixty minutes pass while no timer is armed and no call is in progress:
\* the program has nothing scheduled (its only timers are the periodic one
\* of start() and the one-shot of activation), so only the clock and the
\* monitored application move
SixtyMinutesPass ==
    /\ armedTimers = 0
    /\ InFlight = {}
    /\ now <= EndNow
    /\ now' = now + RecoveryMinutes * MsPerMinute
    /\ source' = SourceAt(now + RecoveryMinutes * MsPerMinute)
    /\ UNCHANGED <<schedVars, tickVars, pgInitialized, userVars, sink,
                   tzOffsetMs, extVars, ticks>>

NextRecovery ==
    \/ ConfigurePostgres
    \/ Start
    \/ Stop
    \/ TimerFire
    \/ Advance
    \/ SixtyMinutesPass
    \/ \E t \in 1..Len(ticks) : TickStep(t)

SpecRecovery == Init /\ [][NextRecovery]_vars

\* The scheduler was started and then stopped by the user
ManuallyStopped == ~isRunning /\ ticks # <<>>

\* C26: when sixty minutes have passed since a manual stop, with the editor
\* left open, the scheduler is running again.
C26_AutoRecovery ==
    [][ (ManuallyStopped /\ now' >= now + RecoveryMinutes * MsPerMinute)
        => isRunning' ]_vars

-----------------------------------------------------------------------------
(* One session of the editor: the extension is activated in a workspace    *)
(* whose stored counters are fresh and whose auto-startup flag is as the   *)
(* last call of disableAutoStartup() or enableAutoStartup() in an earlier  *)
(* session left it.                                                        *)

\* The editor is closed: activate() has not been called
Closed == [phase |-> "closed", enabledBefore |-> TRUE]

InitSession ==
    /\ isRunning = FALSE
    /\ intervalId = 0
    /\ intervalMinutes = DefaultIntervalMinutes
    /\ armedTimers = 0
    /\ executionCount = 0
    /\ errorCount = 0
    /\ supabaseRetryCount = 0
    /\ pgInitialized = FALSE
    /\ configUserId \in UserIds
    /\ secretUserId = ""
    /\ sink = <<>>
    /\ now = StartNow
    /\ source = SourceAt(StartNow)
    /\ tzOffsetMs \in TzOffsets
    /\ lastQuery = NoQuery
    /\ workspaceState = NothingSaved
    /\ pool = PoolIdle
    /\ autoStartupEnabled \in BOOLEAN
    /\ activation = Closed
    /\ ticks = <<>>

\* activate() up to its return: the constructor of AutoStartupManager
\* writes the flag, the constructor of AutoScheduler restores the stored
\* period and counters and begins Stopped
Activate ==
    /\ activation.phase = "closed"
    /\ activation' = [phase |-> "constructed", enabledBefore |-> autoStartupEnabled]
    /\ autoStartupEnabled' = TRUE
    /\ isRunning' = FALSE
    /\ intervalId' = 0
    /\ armedTimers' = 0
    /\ executionCount' = workspaceState.executionCount
    /\ errorCount' = workspaceState.errorCount
    /\ UNCHANGED <<intervalMinutes, supabaseRetryCount, userVars, pgInitialized,
                   sink, envVars, lastQuery, workspaceState, pool, ticks>>

\* The deferred block of activate(): the sink is configured or not, then
\* start(true) is called whatever the flag says
ActivationStart(configured) ==
    LET ids == MigratedUserIds(configUserId, secretUserId)
        initialized == pgInitialized \/ configured
    IN  /\ activation.phase = "constructed"
        /\ activation' = [activation EXCEPT !.phase = "started"]
        /\ pgInitialized' = initialized
        /\ IF isRunning
           THEN UNCHANGED <<schedVars, ticks, userVars, workspaceState>>
           ELSE /\ CanLaunch
                /\ isRunning' = TRUE
                /\ workspaceState' = saveState(executionCount, errorCount)
                /\ intervalId' = intervalMinutes
                /\ armedTimers' = armedTimers + 1
                /\ configUserId' = ids.config
                /\ secretUserId' = ids.secret
                /\ ticks' = Append(ticks, NewTick(now, Ended, initialized, ids.config))
                /\ UNCHANGED intervalMinutes
        /\ UNCHANGED <<tickVars, sink, envVars, lastQuery, autoStartupEnabled, pool>>

\* disableAutoStartup()
DisableAutoStartup ==
    /\ activation.phase # "closed"
    /\ autoStartupEnabled' = FALSE
    /\ UNCHANGED <<schedVars, tickVars, userVars, pgInitialized, sink, envVars,
                   lastQuery, activation, workspaceState, pool, ticks>>

\* enableAutoStartup()
EnableAutoStartup ==
    /\ activation.phase # "closed"
    /\ autoStartupEnabled' = TRUE
    /\ UNCHANGED <<schedVars, tickVars, userVars, pgInitialized, sink, envVars,
                   lastQuery, activation, workspaceState, pool, ticks>>

NextSession ==
    \/ Activate
    \/ \E configured \in BOOLEAN : ActivationStart(configured)
    \/ DisableAutoStartup
    \/ EnableAutoStartup
    \/ activation.phase # "closed" /\ Start
    \/ activation.phase # "closed" /\ Stop
    \/ activation.phase # "closed" /\ TimerFire
    \/ activation.phase # "closed" /\ Advance
    \/ activation.phase # "closed" /\ \E t \in 1..Len(ticks) : TickStep(t)

SpecSession == InitSession /\ [][NextSession]_vars

\* C27: when the deferred block of an activation has run, the scheduler is
\* running exactly if auto-startup was enabled when the editor was opened
\* (after disableAutoStartup() it is not running, after enableAutoStartup()
\* it is).
C27_StartsIffEnabled ==
    [][ (activation.phase = "constructed" /\ activation'.phase = "started")
        => (isRunning' <=> activation.enabledBefore) ]_vars

-----------------------------------------------------------------------------
(* Properties of toggle() *)

\* C28: toggle() inverts the state: from Stopped the scheduler is Running
\* with the timer armed, from Running it is Stopped with no timer, and a
\* second toggle() gives the running state the first one started from.
C28_ToggleInverts ==
    [][ Toggle => /\ isRunning' = ~isRunning
                  /\ isRunning' = RunningAfterToggle(isRunning)
                  /\ isRunning' <=> intervalId' # 0
                  /\ RunningAfterToggle(isRunning') = isRunning ]_vars

\* The scheduler has been toggled on, off, on and off
C28_Witness == ~isRunning /\ intervalId = 0 /\ Len(ticks) >= 2

-----------------------------------------------------------------------------
(* The counter of consecutive watermark failures: the scheduler with all   *)
(* its commands and every outcome of a tick; the timer fires when no call  *)
(* is in progress, up to the call after the maxRetries-th.                 *)

CounterTimerFire == InFlight = {} /\ Len(ticks) < maxRetries + 1 /\ TimerCallback

NextCounter ==
    \/ ConfigurePostgres
    \/ Start
    \/ Stop
    \/ Toggle
    \/ \E m \in Intervals : SetInterval(m)
    \/ CounterTimerFire
    \/ Advance
    \/ \E t \in 1..Len(ticks) : TickStep(t)

SpecCounter == Init /\ [][NextCounter]_vars

\* The watermark fetch of tick t fails in this step
WatermarkFails(t) ==
    /\ ticks[t].pc = "getLast"
    /\ "watermark" \in ticks'[t].raised

\* The watermark stage of tick t ends in this step after a fetch that
\* succeeded (with a checkpoint row, or with an empty sink)
WatermarkSucceeds(t) ==
    /\ ticks[t].pc \in {"getLast", "lookup"}
    /\ ticks'[t].pc = "query"
    /\ "watermark" \notin ticks'[t].raised

\* A command of the scheduler is taken: no call in progress moves
CommandTaken == \A t \in 1..Len(ticks) : ticks'[t] = ticks[t]

\* The extraction or the store of tick t is taken, with or without an error
ExtractionOrStoreTaken(t) ==
    /\ ticks[t].pc \in {"query", "store"}
    /\ ticks'[t] # ticks[t]

CounterTransitions ==
    /\ \A t \in 1..Len(ticks) :
          /\ WatermarkFails(t)
             => supabaseRetryCount' = IF supabaseRetryCount + 1 < maxRetries
                                      THEN supabaseRetryCount + 1
                                      ELSE 0
          /\ WatermarkSucceeds(t) => supabaseRetryCount' = 0
          /\ ExtractionOrStoreTaken(t) => supabaseRetryCount' = supabaseRetryCount
    /\ CommandTaken => supabaseRetryCount' = supabaseRetryCount

CounterInRange == supabaseRetryCount \in 0..(maxRetries - 1)

\* C29: the counter of consecutive watermark failures goes up by one when a
\* watermark fetch fails and back to 0 when that makes it maxRetries, is 0
\* after a watermark fetch that succeeded (also on an empty sink), is left
\* alone by start, stop, toggle, setInterval, the extraction and the store
\* with their errors, and is between 0 and maxRetries - 1 at every moment,
\* so at the end of every tick.
C29_RetryCounter == [][CounterTransitions]_vars /\ []CounterInRange

\* C29 witness: the counter is back at 0 after the fetch failed maxRetries
\* times in a row, and a later fetch has succeeded
C29_Witness ==
    /\ supabaseRetryCount = 0
    /\ \E t \in Ended :
          /\ ticks[t].failCount = maxRetries
          /\ \E u \in Ended : t \in ticks[u].after /\ "watermark" \notin ticks[u].raised

-----------------------------------------------------------------------------
(* Source and sink available: steady operation with the sink configured    *)
(* before the scheduler is started.                                        *)

InitAvailable ==
    /\ isRunning = FALSE
    /\ intervalId = 0
    /\ intervalMinutes = DefaultIntervalMinutes
    /\ armedTimers = 0
    /\ executionCount = 0
    /\ errorCount = 0
    /\ supabaseRetryCount = 0
    /\ pgInitialized = TRUE
    /\ configUserId \in UserIds
    /\ secretUserId = ""
    /\ sink = <<>>
    /\ now = StartNow
    /\ source = SourceAt(StartNow)
    /\ tzOffsetMs \in TzOffsets
    /\ lastQuery = NoQuery
    /\ workspaceState = NothingSaved
    /\ pool = PoolIdle
    /\ autoStartupEnabled = TRUE
    /\ activation = Constructed
    /\ ticks = <<>>

NextAvailable ==
    \/ Start
    \/ SteadyTimerFire
    \/ Advance
    \/ \E t \in 1..Len(ticks) : SteadyTickStep(t)

SpecAvailable == InitAvailable /\ [][NextAvailable]_vars

\* The response is in the source store and the message before it has a text
ExtractableResponse(m) ==
    /\ m.type = 2
    /\ BubbleOf(m) \in source.bubbles
    /\ \E s \in BubbleSequence(source) :
          s.bubble = m.id /\ Truthy(PromptOf(source, s.composer, s.idx))

Written(m) == \E r \in Rows(sink) : r.bubble = m.id

\* The response is not in the sink and a response sent after it is.  It
\* was later than everything synced when it reached the source store (the
\* rows of the sink come from responses sent earlier).
PassedOver(m) ==
    /\ ExtractableResponse(m)
    /\ ~Written(m)
    /\ \E r \in Rows(sink) : Script[r.bubble].sendTime > m.sendTime

\* A response that was passed over is written by no later step (this
\* holds): every later lower bound is at or above a synced send time
PassedOverStays ==
    [][ \A i \in 1..Len(Script) : PassedOver(Script[i]) => ~Written(Script[i])' ]_vars

\* C30: with ticks firing and the source and the sink available, from any
\* state of the sink, a response with a non-empty previous message that is
\* later than everything synced is written in the end, also when it shares
\* its rendered second with the checkpoint row: none is passed over, that
\* is, left out of the sink while a later response is written.
C30_NothingSkipped == \A i \in 1..Len(Script) : ~PassedOver(Script[i])

-----------------------------------------------------------------------------
(* The periodic timer *)

\* C31: in every state, whatever the order of start(), stop(), toggle(),
\* setInterval() and timer firings, a periodic timer is armed exactly if
\* the scheduler is Running, the handle names it, and at most one is armed.
C31_TimerIffRunning ==
    /\ armedTimers > 0 <=> isRunning
    /\ intervalId # 0 <=> isRunning
    /\ armedTimers <= 1

\* C31 witness: the scheduler is Running with one timer armed while a
\* tick is in progress, after every tick the bound allows was begun
C31_Witness ==
    /\ isRunning /\ armedTimers = 1 /\ intervalId = intervalMinutes
    /\ Len(ticks) = MaxTicks
    /\ \E t \in 1..Len(ticks) : ticks[t].pc # "done"

-----------------------------------------------------------------------------
(* The user id of a tick *)

\* The user id the scheduler reports for a tick: what getUserIdSecret()
\* returned when the call began, which is the stored secret from the first
\* call on (nothing in the model changes it afterwards)
ReportedUserId == secretUserId

\* C32: within one tick, the user id that scoped the watermark read and
\* the user id on the rows the tick inserted both equal the user id the
\* scheduler reports for that tick, also after the legacy setting was moved
\* into secret storage.
C32_UserIdOfTick ==
    \A t \in 1..Len(ticks) :
        /\ ticks[t].checkpoint # <<>> => ticks[t].userId = ReportedUserId
        /\ \A r \in Rows(ticks[t].written) : r.user_id = ReportedUserId

-----------------------------------------------------------------------------
(* The stages of one tick *)

\* The place of an await in the tick: watermark read, exact lookup,
\* extraction (with the dedup filter), sink write, end
StageRank(pc) ==
    CASE pc = "getLast" -> 1
      [] pc = "lookup" -> 2
      [] pc = "query" -> 3
      [] pc = "store" -> 4
      [] pc = "done" -> 5

\* Every step of a tick moves it to a later stage, and the sink changes
\* only in the step a tick takes from its sink write
StagesInOrder ==
    /\ \A t \in 1..Len(ticks) :
          ticks'[t] # ticks[t] => StageRank(ticks'[t].pc) > StageRank(ticks[t].pc)
    /\ sink' # sink
       => \E t \in 1..Len(ticks) :
             /\ ticks[t].pc = "store"
             /\ ticks'[t].pc = "done"
             /\ ticks'[t].written # <<>>

\* The lower bound of the extraction is the watermark the tick resolved
\* before
ExtractionFromWatermark ==
    \A t \in 1..Len(ticks) :
        ticks[t].lowerBound # <<>>
        => ticks[t].lowerBound[1] =
              IF ticks[t].timestampToUse.kind = "ms"
              THEN ticks[t].timestampToUse.ms
              ELSE DateParse(ticks[t].timestampToUse.text, tzOffsetMs)

\* A tick that wrote rows had issued its extraction, and each row is a row
\* the extraction returned
WrittenFromExtraction ==
    \A t \in 1..Len(ticks) :
        ticks[t].written # <<>>
        => /\ ticks[t].lowerBound # <<>>
           /\ \A r \in Rows(ticks[t].written) :
                 \E q \in Rows(ticks[t].results) :
                     /\ q.bubble = r.bubble
                     /\ q.timestamp = r.timestamp
                     /\ q.prompt = r.prompt

\* C33: within one tick the stages run in the order watermark read,
\* extraction query, dedup filter, sink write: no sink write happens before
\* the watermark of the tick was resolved and the extraction issued from
\* it, and every row the tick wrote was returned by its extraction.
C33_StageOrder ==
    [][StagesInOrder]_vars /\ []ExtractionFromWatermark /\ []WrittenFromExtraction

\* C33 witness: a tick read a checkpoint row, resolved its exact send time,
\* extracted from it and wrote rows
C33_Witness ==
    \E t \in Ended :
        /\ ticks[t].checkpoint # <<>>
        /\ ticks[t].path = "exact"
        /\ ticks[t].lowerBound # <<>>
        /\ ticks[t].written # <<>>

-----------------------------------------------------------------------------
(* One extraction and its store: a tick about to run the extraction query  *)
(* from the epoch on a store of four messages, each with a text, an empty  *)
(* text or none, and then storing what it extracted.                       *)

WriteTexts == [ProbeIds -> {"m", "", Null}]

WriteSource(kinds, texts, layout) ==
    [bubbles |-> { [composer |-> ProbeComposerOf(layout, i), id |-> i,
                    type |-> kinds[i], text |-> texts[i],
                    sendTime |-> 2 * MsPerSec + i] : i \in ProbeIds },
     sessions |-> layout]

WriteSources ==
    { WriteSource(k, x, l) : k \in ProbeKinds, x \in WriteTexts, l \in ProbeLayouts }

InitWrite ==
    /\ isRunning = TRUE
    /\ intervalId = DefaultIntervalMinutes
    /\ intervalMinutes = DefaultIntervalMinutes
    /\ armedTimers = 1
    /\ executionCount = 0
    /\ errorCount = 0
    /\ supabaseRetryCount = 0
    /\ pgInitialized = TRUE
    /\ configUserId = ""
    /\ secretUserId = ""
    /\ sink = <<>>
    /\ now = StartNow
    /\ source \in WriteSources
    /\ tzOffsetMs = 0
    /\ lastQuery = NoQuery
    /\ workspaceState = NothingSaved
    /\ pool = PoolIdle
    /\ autoStartupEnabled = TRUE
    /\ activation = Started
    /\ ticks = << ProbeAtQuery(StampMs(0)) >>

NextWrite ==
    \/ TickQuery(1, "ok")
    \/ \E k \in 0..Len(ticks[1].filtered) : TickStore(1, k)

SpecWrite == InitWrite /\ [][NextWrite]_vars

\* The responses that stand first in a session, or after a message whose
\* text is empty or absent
ResponsesWithoutPrompt ==
    { MessageAt(place) : place \in
        { q \in Places :
            /\ MessageOf(MessageAt(q)).type = 2
            /\ \/ q[2] = 0
               \/ ~Truthy(MessageOf(MessageAt(<<q[1], q[2] - 1>>)).text) } }

\* C34: every row a tick wrote has a non-empty timestamp and a non-empty
\* prompt; a response that stands first in its session, or after a message
\* with an empty text, has no row.
C34_RowsHaveTimeAndPrompt ==
    \A t \in 1..Len(ticks) :
        \A r \in Rows(ticks[t].written) :
            /\ TextTruthy(r.timestamp)
            /\ Truthy(r.prompt)
            /\ r.bubble \notin ResponsesWithoutPrompt

\* C34 witness: the extraction returned a response that stands first in a
\* session and a response after a message with an empty text, and the tick
\* has stored a row for another response
C34_Witness ==
    \E t \in Ended :
        /\ ticks[t].written # <<>>
        /\ \E n \in 1..Len(ticks[t].results), place \in Places :
              /\ place[2] = 0
              /\ MessageAt(place) = ticks[t].results[n].bubble
        /\ \E n \in 1..Len(ticks[t].results), place \in Places :
              /\ place[2] >= 1
              /\ MessageAt(place) = ticks[t].results[n].bubble
              /\ MessageOf(MessageAt(<<place[1], place[2] - 1>>)).text = ""

-----------------------------------------------------------------------------
(* Responses outside every session *)

\* The responses whose id is in no session's list of messages
Orphans ==
    { b.id : b \in { x \in source.bubbles :
                       /\ x.type = 2
                       /\ \A place \in Places : MessageAt(place) # x.id } }

\* C35: a response whose id is in no session's ordered list of messages
\* has no record in the result of an extraction, whatever its send time.
C35_OrphanExcluded ==
    \A t \in Queried : \A i \in Orphans : RecordsOf(ticks[t].results, i) = {}

\* C35 witness: a response in no session has a send time above the lower
\* bound of an extraction that returned records of other responses
C35_Witness ==
    \E t \in Queried :
        /\ \E i \in Orphans : Qualifies(i, ticks[t].lowerBound[1])
        /\ ticks[t].results # <<>>

-----------------------------------------------------------------------------
(* A batch whose insert fails *)

\* The row the insert loop writes for a record
RowOf(record, userId) ==
    [timestamp |-> record.timestamp, prompt |-> record.prompt,
     user_id |-> InsertUserId(userId), bubble |-> record.bubble]

\* C36: the inserts of a batch are separate statements: when one of them
\* fails, the rows of the records before it are in the sink and stay
\* there, and the tick ends as a tick without error does.
C36_IndependentInserts ==
    \A t \in 1..Len(ticks) :
        "sink" \in ticks[t].raised
        => /\ ticks[t].pc = "done"
           /\ ticks[t].outcome = "ok"
           /\ Len(ticks[t].written) < Len(RecordsToInsert(ticks[t].filtered))
           /\ \A i \in 1..Len(ticks[t].written) :
                 /\ ticks[t].written[i] =
                      RowOf(RecordsToInsert(ticks[t].filtered)[i], ticks[t].insertUserId)
                 /\ \E j \in 1..Len(sink) : sink[j] = ticks[t].written[i]

\* C36 witness: the second insert of a batch failed, the row of the first
\* is in the sink after a later tick has written too, and the errors
\* counted are none
C36_Witness ==
    \E t \in Ended, u \in Ended :
        /\ t \in ticks[u].after
        /\ "sink" \in ticks[t].raised
        /\ Len(ticks[t].written) = 1
        /\ ticks[u].written # <<>>
        /\ sink[1] = ticks[t].written[1]
        /\ errorCount = 0

-----------------------------------------------------------------------------
(* The input box of setInterval(): the text typed is a sequence of         *)
(* characters, validated and parsed as the code does.                      *)

DigitChars == <<"0", "1", "2", "3", "4", "5", "6", "7", "8", "9">>

DigitOf(c) == CHOOSE d \in 0..9 : DigitChars[d + 1] = c

IsDigit(c) == \E d \in 0..9 : DigitChars[d + 1] = c

\* The digits a text begins with
RECURSIVE DigitPrefix(_)
DigitPrefix(text) ==
    IF text = <<>> \/ ~IsDigit(Head(text))
    THEN <<>>
    ELSE <<Head(text)>> \o DigitPrefix(Tail(text))

RECURSIVE DecimalValue(_)
DecimalValue(digits) ==
    IF digits = <<>>
    THEN 0
    ELSE 10 * DecimalValue(SubSeq(digits, 1, Len(digits) - 1))
         + DigitOf(digits[Len(digits)])

\* parseInt(text): an optional sign and the digits that follow it, read
\* up to the first other character; no number when there is no digit
parseInt(text) ==
    LET negative == text # <<>> /\ Head(text) = "-"
        digits == DigitPrefix(IF negative THEN Tail(text) ELSE text)
    IN  [isNaN |-> digits = <<>>,
         num |-> IF negative THEN 0 - DecimalValue(digits) ELSE DecimalValue(digits)]

\* validateInput(value): TRUE when the input box accepts the text
validateInput(value) ==
    LET parsed == parseInt(value)
    IN  ~(parsed.isNaN \/ parsed.num < 1)

\* setInterval() with the text the input box returned
SetIntervalInput(input) ==
    /\ validateInput(input)
    /\ input # <<>>
    /\ SetInterval(parseInt(input).num)

\* The delay of the timer start() arms (lines 505-508): the runtime keeps
\* a delay in a signed 32-bit integer and uses 1 ms for one that does not
\* fit
\* (the product is compared through the quotient, so that no number
\* above the 32-bit range is computed here)
TimerDelayMs(minutes) ==
    LET MaxDelayMs == 2 * (2^30 - 1) + 1
    IN  IF minutes > MaxDelayMs \div (60 * MsPerSec) \/ minutes < 1
        THEN 1
        ELSE minutes * 60 * MsPerSec

InputTexts ==
    { <<"1">>, <<"6", "0">>, <<"0">>, <<"-", "1">>, <<"a">>, <<"1", ".", "5">>,
      <<"0", ".", "5">>, <<>>, <<"4", "0", "0", "0", "0">> }

NextInput ==
    \/ ConfigurePostgres
    \/ Start
    \/ Stop
    \/ \E input \in InputTexts : SetIntervalInput(input)
    \/ \E t \in 1..Len(ticks) : TickStep(t)

SpecInput == Init /\ [][NextInput]_vars

\* C37: the period is never below one minute: intervalMinutes is at least
\* 1 and the timer that is armed has a delay of at least one minute.
C37_PeriodAtLeastOneMinute ==
    /\ intervalMinutes >= 1
    /\ armedTimers > 0 => TimerDelayMs(intervalId) >= MsPerMinute

-----------------------------------------------------------------------------
(* The counters in workspace storage *)

\* A step in which a call of executeScheduledTask ends
TickEnds ==
    \E t \in 1..Len(ticks) :
        /\ Len(ticks') = Len(ticks)
        /\ ticks[t].pc # "done"
        /\ ticks'[t].pc = "done"

\* C38: when a tick ends, the counters in workspace storage are the
\* counters in memory, so that restoreState() of a scheduler constructed
\* afterwards reads the counts the previous one reported.
C38_CountersPersisted ==
    [][TickEnds => workspaceState' = saveState(executionCount', errorCount')]_vars

-----------------------------------------------------------------------------
(* The clients of the pool: the sink operations taken one await at a time. *)
(* A call of initialize() tests the connection and creates the schema,     *)
(* calls of testConnection() come from the commands, and the ticks read    *)
(* the watermark and insert their batch.  The scheduler is started once    *)
(* initialize() has returned, half a second before the last messages are   *)
(* sent.                                                                   *)

MaxCalls == 10

\* await this.pool.connect() of getLastDatapoint (line 472) or of
\* storeSimplePrompts (line 576) resolves with a client
TickConnect(t) ==
    /\ t \in 1..Len(ticks)
    /\ ticks[t].pc \in {"getLast", "store"}
    /\ ~ticks[t].client
    /\ CanConnect
    /\ ticks' = [ticks EXCEPT ![t].client = TRUE]
    /\ pool' = [pool EXCEPT !.checkedOut = @ + 1]
    /\ UNCHANGED <<schedVars, tickVars, userVars, pgInitialized, sink, envVars,
                   lastQuery, sessionVars, workspaceState>>

\* initialize() up to its first await: the pool and the configuration are
\* set
InitializeBegin ==
    /\ ~pgInitialized
    /\ pool.init = "none"
    /\ pgInitialized' = TRUE
    /\ pool' = [pool EXCEPT !.init = "connect"]
    /\ UNCHANGED <<schedVars, tickVars, userVars, sink, envVars, lastQuery,
                   sessionVars, workspaceState, ticks>>

\* The pool after the await of initialize() at pool.init ends (lines
\* 85-95 and ensureTableExists, lines 126-132): ok is whether it resolved
InitializeAfter(ok) ==
    CASE pool.init = "connect" ->
           IF ok
           THEN [pool EXCEPT !.init = "query", !.checkedOut = @ + 1]
           ELSE [pool EXCEPT !.init = "done"]
      [] pool.init = "query" ->
           IF ok
           THEN [pool EXCEPT !.init = "ensureConnect"]
           ELSE [pool EXCEPT !.init = "done", !.checkedOut = Release(@, ok)]
      [] pool.init = "ensureConnect" ->
           IF ok
           THEN [pool EXCEPT !.init = "ensureQuery", !.checkedOut = @ + 1]
           ELSE [pool EXCEPT !.init = "done", !.checkedOut = Release(@, ok)]
      [] pool.init = "ensureQuery" ->
           [pool EXCEPT !.init = "done",
                        !.checkedOut = Release(Release(@, ok), ok)]

InitializeStep(ok) ==
    /\ pool.init \in {"connect", "query", "ensureConnect", "ensureQuery"}
    /\ (ok /\ pool.init \in {"connect", "ensureConnect"}) => CanConnect
    /\ pool' = InitializeAfter(ok)
    /\ UNCHANGED <<schedVars, tickVars, userVars, pgInitialized, sink, envVars,
                   lastQuery, sessionVars, workspaceState, ticks>>

\* testConnection() up to its first await
TestConnectionBegin ==
    /\ pgInitialized
    /\ pool.testing.connect + pool.testing.query < MaxCalls
    /\ pool' = [pool EXCEPT !.testing.connect = @ + 1]
    /\ UNCHANGED <<schedVars, tickVars, userVars, pgInitialized, sink, envVars,
                   lastQuery, sessionVars, workspaceState, ticks>>

\* await this.pool.connect() of a testConnection() call ends (line 404)
TestConnectionConnect(ok) ==
    /\ pool.testing.connect > 0
    /\ ok => CanConnect
    /\ pool' = IF ok
               THEN [pool EXCEPT !.testing.connect = @ - 1,
                                 !.testing.query = @ + 1,
                                 !.checkedOut = @ + 1]
               ELSE [pool EXCEPT !.testing.connect = @ - 1]
    /\ UNCHANGED <<schedVars, tickVars, userVars, pgInitialized, sink, envVars,
                   lastQuery, sessionVars, workspaceState, ticks>>

\* await client.query('SELECT 1') of a testConnection() call ends (lines
\* 406-410)
TestConnectionQuery(ok) ==
    /\ pool.testing.query > 0
    /\ pool' = [pool EXCEPT !.testing.query = @ - 1,
                            !.checkedOut = Release(@, ok)]
    /\ UNCHANGED <<schedVars, tickVars, userVars, pgInitialized, sink, envVars,
                   lastQuery, sessionVars, workspaceState, ticks>>

InitPool ==
    /\ isRunning = FALSE
    /\ intervalId = 0
    /\ intervalMinutes = DefaultIntervalMinutes
    /\ armedTimers = 0
    /\ executionCount = 0
    /\ errorCount = 0
    /\ supabaseRetryCount = 0
    /\ pgInitialized = FALSE
    /\ configUserId = ""
    /\ secretUserId = ""
    /\ sink = <<>>
    /\ now = EndNow - ClockStep
    /\ source = SourceAt(EndNow - ClockStep)
    /\ tzOffsetMs = 0
    /\ lastQuery = NoQuery
    /\ workspaceState = NothingSaved
    /\ pool = PoolIdle
    /\ autoStartupEnabled = TRUE
    /\ activation = Constructed
    /\ ticks = <<>>

NextPool ==
    \/ InitializeBegin
    \/ \E ok \in BOOLEAN : InitializeStep(ok)
    \/ TestConnectionBegin
    \/ \E ok \in BOOLEAN : TestConnectionConnect(ok)
    \/ \E ok \in BOOLEAN : TestConnectionQuery(ok)
    \/ pool.init = "done" /\ Start
    \/ TimerFire
    \/ Advance
    \/ \E t \in 1..Len(ticks) : TickConnect(t)
    \/ \E t \in 1..Len(ticks) : TickStep(t)

SpecPool == InitPool /\ [][NextPool]_vars

\* The clients a call of initialize() holds at the await it is at
HeldByInitialize ==
    CASE pool.init \in {"query", "ensureConnect"} -> 1
      [] pool.init = "ensureQuery" -> 2
      [] OTHER -> 0

\* C39: every client checked out belongs to a sink operation that is in
\* progress (a tick at its watermark read or its batch insert, a
\* connection test, or initialize() with its schema creation): an
\* operation that ended, with or without an error, gave its client back,
\* none is checked out when no operation is in progress, and never more
\* than PoolMax are checked out.
C39_ClientsReleased ==
    /\ \A t \in Ended : ~ticks[t].client
    /\ pool.checkedOut =
         Cardinality({ t \in InFlight : ticks[t].client })
         + pool.testing.query + HeldByInitialize
    /\ pool.checkedOut <= PoolMax

\* C39 witness: the pool is at its cap with a connection test waiting for
\* a client; a tick whose insert failed has ended, another holds a client,
\* and initialize() has ended
C39_Witness ==
    /\ pool.checkedOut = PoolMax
    /\ pool.testing.connect > 0
    /\ pool.init = "done"
    /\ \E t \in Ended : "sink" \in ticks[t].raised
    /\ \E u \in InFlight : ticks[u].client

====
